---------------------------- MODULE Spec2Model ----------------------------
(***************************************************************************)
(* A model of the four GitHub maintenance scripts of jon-at-skynet:        *)
(*   scripts/1_generate_repo_report.py   (report script)                   *)
(*   scripts/2_merge_safe_prs.py         (PR auto-merge script)            *)
(*   scripts/3_fetch_all_prs.py          (PR fetch script)                 *)
(*   scripts/audit_github_repos.py       (compliance auditor)              *)
(* The scripts are independent programs.  Each gets its own variables and  *)
(* its own specification; a specification leaves the variables of the      *)
(* other scripts at their idle values.                                     *)
(***************************************************************************)
EXTENDS Integers, Sequences, FiniteSets, TLC

VARIABLES
    \* ---- PR auto-merge script (2_merge_safe_prs.py) ----
    stats,        \* the global stats dictionary
    mpc,          \* position around check_and_merge_pr: "idle" | "call" | "returned"
    author,       \* the author login of the pull request being checked (or None)
    status_data,  \* what "gh pr view" gave check_and_merge_pr for it
    cmds,         \* the gh commands issued for that pull request, in order
    \* ---- PR fetch script (3_fetch_all_prs.py), main ----
    github_prs,   \* per owner, the pull requests open on GitHub (the environment)
    rate_limits,  \* what check_github_rate_limits returned to the gate
    estimates,    \* what estimate_api_requests returned to the gate
    first_pages,  \* per owner, what the first repository page counted for the estimate
    prompted,     \* whether the gate has asked "Proceed anyway? (y/N)"
    response,     \* what the operator typed at the prompt
    fpc,          \* position of main: "idle" | "validate" | "prompt" | "loop" |
                  \*   "report" | "done" | "aborted"
    owner_ix,     \* how many owners the loop of main has finished
    prs1,         \* result of fetch_all_prs_for_owner for the last owner
    prs2,         \* result of fetch_prs_by_repo_list for the last owner
    owner_prs,    \* list(pr_map.values()) for the last owner
    all_prs,      \* the list handed to generate_markdown_report
    \* ---- the parallel dispatchers (report script, PR fetch script) ----
    dmode,        \* "idle" | "counter" | "report" | "fetch": which dispatcher runs
    dpc,          \* the dispatching thread: "idle" | "collecting" | "returned" | "aborted"
    repos,        \* the list of repositories handed to the dispatcher
    max_workers,  \* size of the thread pool
    tpc,          \* per submitted task, the position of its worker
    ext,          \* per task, what its external calls did
    current,      \* ProgressCounter.current
    lock,         \* ProgressCounter.lock: the task holding it, or 0
    loaded,       \* per task, the value of current read by "self.current += 1"
    returned,     \* per task, the value increment() returned (0: not yet)
    printed,      \* the values of current in the progress lines, in the order written
    repo_info,    \* per repository record, the ci_info/issues_info written to it
    collected,    \* the futures as_completed has yielded so far
    fetched,      \* all_prs of fetch_prs_by_repo_list
    completed_count, \* of fetch_prs_by_repo_list
    error_count,  \* of fetch_prs_by_repo_list
    \* ---- one function making external calls (all four scripts) ----
    rpc,          \* "idle" | "ready" | "waiting" | "returned" | "done"
    caller,       \* the function making the calls
    site,         \* the external call it is at
    answer,       \* what the external system does with the call in flight
    result,       \* what the call gave the function
    logged,       \* whether the call printed a diagnostic
    first,        \* the result of the function's first call, once it makes a second
    out,          \* what the function returned or raised
    \* ---- compliance audit script (audit_github_repos.py), audit_repository ----
    apc,          \* "idle" | "start" | "scanned" | "fixing" | "fixed" | "returned"
    repo_files,   \* the standard file types the repository holds (the environment)
    repo_labels,  \* the names of the repository's labels (the environment)
    fix_labels,   \* argument of audit_repository
    create_issues, \* argument of audit_repository
    audit_result, \* the record audit_repository builds
    fix_ix,       \* create_missing_labels: how many of the missing labels are done
    created_count, \* create_missing_labels: its counter
    label_codes,  \* the status codes the label creations got, in order
    issue_calls,  \* the create_or_update_issue calls made, in order
    \* ---- compliance audit script, create_or_update_issue ----
    ipc,          \* "idle" | "ready" | "search" | "reopen" | "create" | "done"
    istore,       \* the repository's issues on GitHub, by number (the environment)
    calls_left,   \* how many more create_or_update_issue calls are made
    ititle,       \* argument title of the call
    snapshot,     \* the repository's issues when the search was answered
    search_items, \* result["items"] of the search
    existing_issue, \* what search_issues returned (number; 0 for None)
    issue_http,   \* the HTTP requests of the call, in order
    iret,         \* what the call returned: "True" | "False" | "raised" | None
    \* ---- one run of one script, from its entry point to its exit ----
    xpc,          \* "idle" | "start" | "running" | "exited"
    xscript,      \* which script runs
    args_ok,      \* whether what the script requires was given
    n_items,      \* how many items the run has to process
    outcomes,     \* how the items processed so far went
    fatal,        \* whether an exception reached the top level
    exit_code,    \* the exit code of the process (-1 while it runs)
    \* ---- the sequential loops (audit_organization, main of the merge script) ----
    lpc,          \* "idle" | "loop" | "done"
    lscript,      \* "audit" | "merge": whose loop runs
    include_archived, \* args.include_archived of the audit script
    litems,       \* the repositories / pull requests the loop goes over
    handled,      \* per item finished, what the loop did with it
    main_errors,  \* stats["errors"] as added to by the loop's handler
    diagnostics,  \* the items the loop's handler printed an error line for
    repositories, \* org_audit["repositories"]: the items audited
    archived_count,\* org_audit["summary"]["repo_types"]["archived"]
    \* ---- the toggles of the report script (1_generate_repo_report.py, main) ----
    tgpc,         \* "idle" | "main" | "checking" | "done"
    no_ci_check,  \* args.no_ci_check
    no_issues,    \* args.no_issues
    n_repos,      \* how many repositories get_all_repos returned
    checked,      \* the repositories whose worker has run
    lookups,      \* the lookups made: [repo, site]
    not_checked,  \* whether main wrote the "Not checked" entries itself
    \* ---- check_file_exists (audit_github_repos.py) ----
    ppc,          \* "idle" | "probing" | "returned" | "raised"
    file_paths,   \* the candidate paths handed to check_file_exists
    repo_paths,   \* the candidates that exist in the repository
    failing,      \* the candidates whose request GitHub answers with an error
    probed,       \* the paths requested so far, in order
    pret,         \* what check_file_exists returned
    \* ---- the pagination loops (3_fetch_all_prs.py, audit_github_repos.py) ----
    gpc,          \* "idle" | "listing" | "broke" | "returned" | "raised"
    lister,       \* the function whose loop runs
    page,         \* the loop's page variable
    pages_requested, \* the page numbers requested so far, in order
    page_answers, \* what the upstream answered to each request
    listed,       \* the loop's list: per page appended, the page and its item count
    lret          \* the list the function returned

mergeVars == <<stats, mpc, author, status_data, cmds>>

gateVars == <<rate_limits, estimates, first_pages, prompted, response>>

dedupVars == <<github_prs, fpc, owner_ix, prs1, prs2, owner_prs, all_prs>>

fetchVars == <<gateVars, dedupVars>>

poolVars == <<dmode, repos, max_workers, tpc, ext, current, lock, loaded, returned,
              printed>>

collectVars == <<dpc, repo_info, collected, fetched, completed_count, error_count>>

dispVars == <<poolVars, collectVars>>

runVars == <<rpc, caller, site, answer, result, logged, first, out>>

auditVars ==
    <<apc, repo_files, repo_labels, fix_labels, create_issues, audit_result,
      fix_ix, created_count, label_codes, issue_calls>>

issueVars ==
    <<ipc, istore, calls_left, ititle, snapshot, search_items, existing_issue,
      issue_http, iret>>

exitVars == <<xpc, xscript, args_ok, n_items, outcomes, fatal, exit_code>>

loopVars ==
    <<lpc, lscript, include_archived, litems, handled, main_errors, diagnostics,
      repositories, archived_count>>

toggleVars == <<tgpc, no_ci_check, no_issues, n_repos, checked, lookups, not_checked>>

probeVars == <<ppc, file_paths, repo_paths, failing, probed, pret>>

pagesVars == <<gpc, lister, page, pages_requested, page_answers, listed, lret>>

vars ==
    <<mergeVars, fetchVars, dispVars, runVars, auditVars, issueVars, exitVars, loopVars, toggleVars, probeVars, pagesVars>>

\* What an action of one script leaves alone: the other scripts.
MergeOnly == UNCHANGED <<fetchVars, dispVars, runVars, auditVars, issueVars, exitVars, loopVars, toggleVars, probeVars, pagesVars>>

DedupOnly == UNCHANGED <<mergeVars, dispVars, runVars, auditVars, issueVars, exitVars, loopVars, toggleVars, probeVars, pagesVars>>

DispOnly == UNCHANGED <<mergeVars, fetchVars, runVars, auditVars, issueVars, exitVars, loopVars, toggleVars, probeVars, pagesVars>>

RunOnly == UNCHANGED <<mergeVars, fetchVars, dispVars, auditVars, issueVars, exitVars, loopVars, toggleVars, probeVars, pagesVars>>

AuditOnly == UNCHANGED <<mergeVars, fetchVars, dispVars, runVars, issueVars, exitVars, loopVars, toggleVars, probeVars, pagesVars>>

IssueOnly == UNCHANGED <<mergeVars, fetchVars, dispVars, runVars, auditVars, exitVars, loopVars, toggleVars, probeVars, pagesVars>>

ExitOnly == UNCHANGED <<mergeVars, fetchVars, dispVars, runVars, auditVars, issueVars, loopVars, toggleVars, probeVars, pagesVars>>

LoopOnly == UNCHANGED <<mergeVars, fetchVars, dispVars, runVars, auditVars, issueVars, exitVars, toggleVars, probeVars, pagesVars>>

ToggleOnly == UNCHANGED <<mergeVars, fetchVars, dispVars, runVars, auditVars, issueVars, exitVars, loopVars, probeVars, pagesVars>>

ProbeOnly == UNCHANGED <<mergeVars, fetchVars, dispVars, runVars, auditVars, issueVars, exitVars, loopVars, toggleVars, pagesVars>>

PagesOnly == UNCHANGED <<mergeVars, fetchVars, dispVars, runVars, auditVars, issueVars, exitVars, loopVars, toggleVars, probeVars>>

(***************************************************************************)
(* Python's None.                                                          *)
(***************************************************************************)
None == "None"

\* Elements of a sequence, and all sequences over S of length at most n.
Range(s) == {s[i] : i \in 1..Len(s)}

SeqsUpTo(S, n) == UNION {[1..k -> S] : k \in 0..n}

(***************************************************************************)
(*                      PR AUTO-MERGE SCRIPT                               *)
(***************************************************************************)

\* Largest statusCheckRollup list the environment returns.
MaxChecks == 2

\* stats (2_merge_safe_prs.py:14-23)
StatKeys ==
    {"total_prs", "merged_prs", "auto_merged_prs", "dependabot_recreated",
     "failed_checks", "pending_checks", "not_mergeable", "errors"}

StatsInit == [k \in StatKeys |-> 0]

Bump(st, k) == [st EXCEPT ![k] = @ + 1]

\* str.lower() on the author logins the model draws.
Lower(login) ==
    CASE login = "Dependabot[bot]" -> "dependabot[bot]"
      [] login = "Dependabot"      -> "dependabot"
      [] OTHER                     -> login

\* is_dependabot_pr: a missing author (None, or no login) is not the bot.
\* (variant) every pull request with an author is taken for the bot's.
is_dependabot_pr_AnyAuthor(who) == who # None

is_dependabot_pr(who) ==
    IF who = None
    THEN FALSE
    ELSE Lower(who) \in {"dependabot[bot]", "dependabot"}

\* The two literal lists of check_and_merge_pr's classification loop.
FailedConclusions == {"FAILURE", "CANCELLED", "TIMED_OUT"}

PendingStatuses == {"IN_PROGRESS", "QUEUED", "PENDING"}

\* The loop over status_checks: a check goes to failed_checks on its
\* conclusion, and only otherwise (elif) to pending_checks on its status.
failed_checks(status_checks) ==
    SelectSeq(status_checks, LAMBDA c : c.conclusion \in FailedConclusions)

pending_checks(status_checks) ==
    SelectSeq(status_checks,
              LAMBDA c : /\ c.conclusion \notin FailedConclusions
                         /\ c.status \in PendingStatuses)

\* Error texts of a failed "gh pr merge"; the last one holds the phrase
\* "base branch policy prohibits the merge" the except branch looks for.
StderrTexts ==
    {"", "GraphQL: Pull Request is not mergeable (mergePullRequest)",
     "X Pull request is not mergeable: the base branch policy prohibits the merge."}

\* (variant) any error text is taken for the policy error.
ContainsPolicyPhrase_AnyError(stderr) == stderr # ""

\* "base branch policy prohibits the merge" in e.stderr
ContainsPolicyPhrase(stderr) ==
    stderr = "X Pull request is not mergeable: the base branch policy prohibits the merge."

\* What "gh pr view --json statusCheckRollup,mergeable,mergeStateStatus" can
\* print.  A check run carries conclusion and status; a commit status
\* context carries a state and neither of those keys (check.get gives None
\* for both).  The loop reads conclusion and status only.
Conclusions == FailedConclusions \cup {"SUCCESS", "ACTION_REQUIRED"}

Statuses == PendingStatuses \cup {"COMPLETED"}

CheckRuns ==
    {c \in [conclusion : Conclusions \cup {None}, status : Statuses, state : {None}] :
        \/ c.conclusion = None /\ c.status # "COMPLETED"
        \/ c.conclusion # None /\ c.status = "COMPLETED"
        \/ c.conclusion = "FAILURE" /\ c.status = "IN_PROGRESS"}

StatusContexts ==
    [conclusion : {None}, status : {None}, state : {"SUCCESS", "FAILURE", "PENDING"}]

Checks == CheckRuns \cup StatusContexts

Mergeables == {"MERGEABLE", "CONFLICTING", "UNKNOWN"}

MergeStates == {"CLEAN", "DIRTY", "BLOCKED"}

StatusData ==
    [mergeable : Mergeables, mergeStateStatus : MergeStates,
     statusCheckRollup : SeqsUpTo(Checks, MaxChecks)]

\* The value of status_data when run_gh_command returned None.
NoStatusData ==
    [mergeable |-> None, mergeStateStatus |-> None, statusCheckRollup |-> <<>>]

\* run_gh_command of the merge script: CalledProcessError, empty stdout and
\* JSONDecodeError all give None; view is the kind of answer gh gave.
ViewAnswers == {"json", "nonzero_exit", "empty_stdout", "malformed_json"}

merge_run_gh_command(view, parsed) ==
    IF view = "json" THEN parsed ELSE NoStatusData

Authors == {"dependabot[bot]", "Dependabot", "octocat", None}

Cmd(c, rc, err) == [cmd |-> c, rc |-> rc, stderr |-> err]

\* recreate_dependabot_pr: one "gh pr comment ... @dependabot recreate".
recreate_dependabot_pr(st, issued, comment_rc) ==
    IF comment_rc = "ok"
    THEN [stats |-> Bump(st, "dependabot_recreated"),
          cmds  |-> Append(issued, Cmd("comment", "ok", ""))]
    ELSE [stats |-> Bump(st, "errors"),
          cmds  |-> Append(issued, Cmd("comment", "fail", ""))]

\* (mutant) a squash-merge that failed is run once more.
merge_attempt_SquashAgain(st, issued, merge_rc, merge_err, auto_rc) ==
    LET tried == Append(issued, Cmd("merge", merge_rc, merge_err))
    IN  IF merge_rc = "ok"
        THEN [stats |-> Bump(st, "merged_prs"), cmds |-> tried]
        ELSE [stats |-> Bump(st, "errors"),
              cmds  |-> Append(tried, Cmd("merge", merge_rc, merge_err))]

\* The merge attempt at the end of check_and_merge_pr: squash-merge with
\* branch deletion, and on the branch-policy error the same command + --auto.
merge_attempt(st, issued, merge_rc, merge_err, auto_rc) ==
    LET tried == Append(issued, Cmd("merge", merge_rc, merge_err))
    IN  IF merge_rc = "ok"
        THEN [stats |-> Bump(st, "merged_prs"), cmds |-> tried]
        ELSE IF ContainsPolicyPhrase(merge_err)
             THEN IF auto_rc = "ok"
                  THEN [stats |-> Bump(st, "auto_merged_prs"),
                        cmds  |-> Append(tried, Cmd("auto_merge", "ok", ""))]
                  ELSE [stats |-> Bump(st, "errors"),
                        cmds  |-> Append(tried, Cmd("auto_merge", "fail", ""))]
             ELSE [stats |-> Bump(st, "errors"), cmds |-> tried]

\* (mutant) the pending test made before the failed test.
checks_decision_PendingFirst(st, issued, failed, pending, merge_rc, merge_err, auto_rc) ==
    IF pending # <<>>
    THEN [stats |-> Bump(st, "pending_checks"), cmds |-> issued]
    ELSE IF failed # <<>>
         THEN [stats |-> Bump(st, "failed_checks"), cmds |-> issued]
         ELSE merge_attempt(st, issued, merge_rc, merge_err, auto_rc)

\* The decision between the classification loop and the merge attempt.
checks_decision(st, issued, failed, pending, merge_rc, merge_err, auto_rc) ==
    IF failed # <<>>
    THEN [stats |-> Bump(st, "failed_checks"), cmds |-> issued]
    ELSE IF pending # <<>>
         THEN [stats |-> Bump(st, "pending_checks"), cmds |-> issued]
         ELSE merge_attempt(st, issued, merge_rc, merge_err, auto_rc)

\* check_and_merge_pr, given what the external commands answer.
check_and_merge_pr(st0, who, view, sd, merge_rc, merge_err, auto_rc, comment_rc) ==
    LET st     == Bump(st0, "total_prs")
        issued == <<Cmd("view", IF view = "nonzero_exit" THEN "fail" ELSE "ok", "")>>
    IN  IF view # "json"
        THEN [stats |-> Bump(st, "errors"), cmds |-> issued]
        ELSE IF sd.mergeable # "MERGEABLE"
             THEN IF is_dependabot_pr(who) /\ sd.mergeStateStatus = "DIRTY"
                  THEN recreate_dependabot_pr(Bump(st, "not_mergeable"), issued, comment_rc)
                  ELSE [stats |-> Bump(st, "not_mergeable"), cmds |-> issued]
             ELSE checks_decision(st, issued,
                                  failed_checks(sd.statusCheckRollup),
                                  pending_checks(sd.statusCheckRollup),
                                  merge_rc, merge_err, auto_rc)

MergeInit ==
    /\ stats = StatsInit
    /\ mpc = "call"
    /\ author \in Authors
    /\ status_data = NoStatusData
    /\ cmds = <<>>

MergeIdle ==
    /\ stats = StatsInit
    /\ mpc = "idle"
    /\ author = None
    /\ status_data = NoStatusData
    /\ cmds = <<>>

\* One call of check_and_merge_pr from the loop of main.
CheckAndMergePr ==
    /\ mpc = "call"
    /\ \E view \in ViewAnswers, sd \in StatusData,
          merge_rc \in {"ok", "fail"}, merge_err \in StderrTexts,
          auto_rc \in {"ok", "fail"}, comment_rc \in {"ok", "fail"} :
          LET r == check_and_merge_pr(stats, author, view, sd,
                                      merge_rc, merge_err, auto_rc, comment_rc)
          IN  /\ (merge_rc = "ok") => (merge_err = "")
              /\ stats' = r.stats
              /\ cmds' = r.cmds
              /\ status_data' = merge_run_gh_command(view, sd)
    /\ mpc' = "returned"
    /\ UNCHANGED author
    /\ MergeOnly

MergeNext == CheckAndMergePr

(***************************************************************************)
(*                 PR FETCH SCRIPT: main, deduplication                    *)
(***************************************************************************)

\* Longest list one fetch path returns for one owner.
MaxFetched == 2

\* owners (3_fetch_all_prs.py:519)
owners == <<"jon-the-dev", "zerodaysec">>

\* The repositories an owner holds, and the pull requests that can be open
\* in them.  Both fetch paths of an owner list that owner's repositories
\* only, and may list an open pull request more than once or not at all.
ReposOf(o) ==
    IF o = "jon-the-dev"
    THEN {"jon-the-dev/api", "jon-the-dev/web"}
    ELSE {"zerodaysec/api", "zerodaysec/web"}

OpenPRsOf(o) ==
    {k \in ReposOf(o) \X {1, 2} : ~(k[1] \in {"jon-the-dev/web", "zerodaysec/web"} /\ k[2] = 2)}

\* A pull-request record as a fetch path builds it.  item stands for the
\* rest of the record (title, url, timestamps, draft, user): the i-th record
\* of a path's output, so that any two fetched records differ.
PrRecord(k, path, i) ==
    [repository |-> [nameWithOwner |-> k[1]], number |-> k[2],
     item |-> [path |-> path, index |-> i]]

FetchResults(o, path) ==
    {[i \in 1..Len(ks) |-> PrRecord(ks[i], path, i)] :
        ks \in SeqsUpTo(github_prs[o], MaxFetched)}

\* key = f"{nameWithOwner}#{number}": the pair, as neither a repository
\* name nor a number holds a '#'.
Key(pr) == <<pr.repository.nameWithOwner, pr.number>>

HasKey(pr_map, k) == \E j \in 1..Len(pr_map) : Key(pr_map[j]) = k

\* (mutant) pr_map[key] = pr without the membership test: the later record
\* replaces the earlier one in place.
PutIfAbsent_Overwrite(pr_map, pr) ==
    IF HasKey(pr_map, Key(pr))
    THEN [j \in 1..Len(pr_map) |-> IF Key(pr_map[j]) = Key(pr) THEN pr ELSE pr_map[j]]
    ELSE Append(pr_map, pr)

\* (mutant) every record is kept.
PutIfAbsent_Always(pr_map, pr) == Append(pr_map, pr)

\* if key not in pr_map: pr_map[key] = pr.   pr_map is the dict in
\* insertion order, as list(pr_map.values()) reads it.
PutIfAbsent(pr_map, pr) ==
    IF HasKey(pr_map, Key(pr)) THEN pr_map ELSE Append(pr_map, pr)

RECURSIVE DedupFrom(_, _, _)
DedupFrom(prs, i, pr_map) ==
    IF i > Len(prs)
    THEN pr_map
    ELSE DedupFrom(prs, i + 1, PutIfAbsent(pr_map, prs[i]))

\* The "Combine and deduplicate" block of main.
Deduplicate(p1, p2) == DedupFrom(p1 \o p2, 1, <<>>)

GateIdle ==
    /\ rate_limits = [known |-> FALSE, core |-> 0, search |-> 0]
    /\ estimates = [search_requests |-> 0, repo_list_requests |-> 0, pr_list_requests |-> 0]
    /\ first_pages = <<>>
    /\ prompted = FALSE
    /\ response = None

\* main past the rate-limit gate, at the head of its loop over owners.
DedupInit ==
    /\ github_prs = [o \in Range(owners) |-> OpenPRsOf(o)]
    /\ GateIdle
    /\ fpc = "loop"
    /\ owner_ix = 0
    /\ prs1 = <<>>
    /\ prs2 = <<>>
    /\ owner_prs = <<>>
    /\ all_prs = <<>>

DedupIdle ==
    /\ github_prs = [o \in Range(owners) |-> {}]
    /\ GateIdle
    /\ fpc = "idle"
    /\ owner_ix = 0
    /\ prs1 = <<>>
    /\ prs2 = <<>>
    /\ owner_prs = <<>>
    /\ all_prs = <<>>

\* One iteration of "for owner in owners" in main.
ProcessOwner ==
    /\ fpc = "loop"
    /\ owner_ix < Len(owners)
    /\ \E r1 \in FetchResults(owners[owner_ix + 1], "search"),
          r2 \in FetchResults(owners[owner_ix + 1], "list") :
          /\ prs1' = r1
          /\ prs2' = r2
          /\ owner_prs' = Deduplicate(r1, r2)
          /\ all_prs' = all_prs \o Deduplicate(r1, r2)
    /\ owner_ix' = owner_ix + 1
    /\ fpc' = IF owner_ix + 1 = Len(owners) THEN "report" ELSE "loop"
    /\ UNCHANGED <<github_prs, gateVars>>
    /\ DedupOnly

\* generate_markdown_report(all_prs, output_file)
GenerateReport ==
    /\ fpc = "report"
    /\ fpc' = "done"
    /\ UNCHANGED <<owner_ix, prs1, prs2, owner_prs, all_prs>>
    /\ UNCHANGED <<github_prs, gateVars>>
    /\ DedupOnly

DedupNext == ProcessOwner \/ GenerateReport

(***************************************************************************)
(*                PR FETCH SCRIPT: the rate-limit gate                     *)
(***************************************************************************)

\* Repositories per listing page, the factor applied to a full first page,
\* and the fallback when the first page cannot be counted.
PerPage == 100

FullPageFactor == 3

FallbackRepoPages == 5

FallbackPrCalls == 200

\* What "gh api rate_limit" can report as remaining, per class.
CoreRemaining == {50, 5000}

SearchRemaining == {1, 2, 30}

\* What the first repository page of an owner can count (-1: the command
\* failed or did not print a number).
FirstPageCounts == {0, 1, 99, 100, -1}

\* check_github_rate_limits: None when the command fails or prints
\* something json.loads rejects.
RateAnswers ==
    {[known |-> FALSE, core |-> 0, search |-> 0]} \cup
    [known : {TRUE}, core : CoreRemaining, search : SearchRemaining]

\* (variant) a full first page is taken as the whole listing.
owner_estimate_NoTripling(first_page_count) ==
    IF first_page_count >= 0
    THEN [repo_pages |-> (first_page_count + 99) \div 100,
          pr_calls   |-> first_page_count]
    ELSE [repo_pages |-> FallbackRepoPages, pr_calls |-> FallbackPrCalls]

\* estimate_api_requests, one owner: (repo_pages, pr_calls)
owner_estimate(first_page_count) ==
    IF first_page_count >= 0
    THEN LET estimated_repos ==
                 IF first_page_count = PerPage
                 THEN first_page_count * FullPageFactor
                 ELSE first_page_count
         IN  [repo_pages |-> (estimated_repos + 99) \div 100,
              pr_calls   |-> estimated_repos]
    ELSE [repo_pages |-> FallbackRepoPages, pr_calls |-> FallbackPrCalls]

RECURSIVE SumOver(_, _, _)
SumOver(counts, i, field) ==
    IF i > Len(counts)
    THEN 0
    ELSE owner_estimate(counts[i])[field] + SumOver(counts, i + 1, field)

\* estimate_api_requests(owners), counts[i] being owner i's first page.
estimate_api_requests(counts) ==
    [search_requests    |-> Len(counts),
     repo_list_requests |-> SumOver(counts, 1, "repo_pages"),
     pr_list_requests   |-> SumOver(counts, 1, "pr_calls")]

\* (mutant) the search class is not compared.
quota_issues_CoreOnly(rl, est) ==
    IF est.repo_list_requests + est.pr_list_requests > rl.core THEN {"core"} ELSE {}

\* The two comparisons of validate_rate_limits_before_execution.
quota_issues(rl, est) ==
    (IF est.repo_list_requests + est.pr_list_requests > rl.core THEN {"core"} ELSE {})
    \cup (IF est.search_requests > rl.search THEN {"search"} ELSE {})

\* What the operator can type, and input(...).lower().strip() of it.
Answers == {"y", "Y", " y ", "n", "", "yes"}

LowerStrip(text) ==
    CASE text \in {"y", "Y", " y "} -> "y"
      [] OTHER -> text

\* (mutant) the default of the prompt taken as yes.
proceeds_EmptyIsYes(text) == LowerStrip(text) \in {"y", ""}

\* return response == 'y'
proceeds(text) == LowerStrip(text) = "y"

\* main with the gate ahead: one open pull request on GitHub, under either
\* owner.
GateInit ==
    /\ \E p \in Range(owners) :
          github_prs = [o \in Range(owners) |-> IF o = p THEN {CHOOSE k \in OpenPRsOf(o) : TRUE} ELSE {}]
    /\ GateIdle
    /\ fpc = "validate"
    /\ owner_ix = 0
    /\ prs1 = <<>>
    /\ prs2 = <<>>
    /\ owner_prs = <<>>
    /\ all_prs = <<>>

\* (variant) an unknown quota is handled like a known one.
fails_open_Never(rl) == FALSE

\* "if not rate_limits: ... return True": without the quota the gate lets
\* the run proceed.
fails_open(rl) == ~rl.known

\* validate_rate_limits_before_execution up to its return or its prompt.
ValidateRateLimits ==
    /\ fpc = "validate"
    /\ \E rl \in RateAnswers, counts \in [1..Len(owners) -> FirstPageCounts] :
          /\ rate_limits' = rl
          /\ IF fails_open(rl)
             THEN /\ fpc' = "loop"
                  /\ UNCHANGED <<estimates, first_pages, prompted>>
             ELSE /\ estimates' = estimate_api_requests(counts)
                  /\ first_pages' = counts
                  /\ IF quota_issues(rl, estimate_api_requests(counts)) # {}
                     THEN prompted' = TRUE /\ fpc' = "prompt"
                     ELSE prompted' = FALSE /\ fpc' = "loop"
    /\ UNCHANGED <<response, github_prs, owner_ix, prs1, prs2, owner_prs, all_prs>>
    /\ DedupOnly

\* The operator answers the prompt.
OperatorAnswers ==
    /\ fpc = "prompt"
    /\ \E text \in Answers :
          /\ response' = text
          /\ fpc' = IF proceeds(text) THEN "loop" ELSE "aborted"
    /\ UNCHANGED <<rate_limits, estimates, first_pages, prompted>>
    /\ UNCHANGED <<github_prs, owner_ix, prs1, prs2, owner_prs, all_prs>>
    /\ DedupOnly

\* The operator interrupts the prompt (KeyboardInterrupt).
OperatorInterrupts ==
    /\ fpc = "prompt"
    /\ response' = "^C"
    /\ fpc' = "aborted"
    /\ UNCHANGED <<rate_limits, estimates, first_pages, prompted>>
    /\ UNCHANGED <<github_prs, owner_ix, prs1, prs2, owner_prs, all_prs>>
    /\ DedupOnly

GateNext ==
    \/ ValidateRateLimits
    \/ OperatorAnswers
    \/ OperatorInterrupts
    \/ ProcessOwner
    \/ GenerateReport

(***************************************************************************)
(*                     THE PARALLEL DISPATCHERS                            *)
(* check_repos_ci_and_issues_parallel (report script) and                  *)
(* fetch_prs_by_repo_list (PR fetch script): a ThreadPoolExecutor runs one *)
(* worker call per repository, the dispatching thread takes the futures    *)
(* from as_completed.  Repository names are numbered 1, 2, ...             *)
(***************************************************************************)

\* Longest repository list, and largest thread pool.
MaxRepos == 3

MaxWorkers == 2

Tasks == 1..Len(repos)

\* Lists of n repositories without a repeated name.
DistinctRepos(n) == [i \in 1..n |-> i]

\* Lists of repositories in which a name may repeat (get_all_repos extends
\* the list once per organization given), names numbered by first occurrence.
RepoLists(n) ==
    {l \in [1..n -> 1..n] :
        \A i \in 1..n : l[i] = 1 \/ \E j \in 1..(i - 1) : l[j] = l[i] - 1}

\* What the external calls of one worker can do.
\*   report script: both checks answer (two different answers are drawn),
\*     or something in the try block raises;
\*   PR fetch script: gh pr list answers with 0, 1 or 2 pull requests, or
\*     fails (run_command gives None), or prints malformed JSON, or the
\*     transformation raises (a missing key);
\*   either: an exception leaves the worker function itself.
ReportOutcomes == {"info_a", "info_b", "raise", "escape"}

FetchOutcomes == {"prs0", "prs1", "prs2", "cmd_fail", "bad_json", "raise", "escape"}

NotRun == "not_run"

\* The dictionary both the worker and the dispatcher fall back to.
DefaultInfo ==
    [ci_info |-> "Error checking CI", issues_info |-> [count |-> 0, issues |-> <<>>]]

Unset == [ci_info |-> None, issues_info |-> [count |-> 0, issues |-> <<>>]]

InfoOf(o) ==
    IF o = "info_a"
    THEN [ci_info |-> "Passing", issues_info |-> [count |-> 1, issues |-> <<"issue">>]]
    ELSE [ci_info |-> "No CI", issues_info |-> [count |-> 0, issues |-> <<>>]]

\* check_repo_ci_and_issues_with_progress: what the worker function returns
\* for its repository (the try block, or the except block's default).
report_worker_result(o) ==
    IF o \in {"info_a", "info_b"} THEN InfoOf(o) ELSE DefaultInfo

\* fetch_prs_for_single_repo: (repo, prs, error)
PrsOf(repo, n) == [k \in 1..n |-> [repository |-> repo, number |-> k]]

fetch_worker_result(repo, o) ==
    CASE o = "prs0"     -> [prs |-> <<>>, error |-> None]
      [] o = "prs1"     -> [prs |-> PrsOf(repo, 1), error |-> None]
      [] o = "prs2"     -> [prs |-> PrsOf(repo, 2), error |-> None]
      [] o = "cmd_fail" -> [prs |-> <<>>, error |-> None]
      [] o = "bad_json" -> [prs |-> <<>>, error |-> "JSON decode error"]
      [] OTHER          -> [prs |-> <<>>, error |-> "Error"]

\* The pool takes tasks in submission order and runs at most max_workers.
Running == {i \in Tasks : tpc[i] \notin {"queued", "done"}}

CanStart(i) ==
    /\ tpc[i] = "queued"
    /\ \A j \in 1..(i - 1) : tpc[j] # "queued"
    /\ Cardinality(Running) < max_workers

PoolInit(mode, lists) ==
    /\ dmode = mode
    /\ repos \in lists
    /\ max_workers \in 1..MaxWorkers
    /\ tpc = [i \in 1..Len(repos) |-> "queued"]
    /\ ext = [i \in 1..Len(repos) |-> NotRun]
    /\ current = 0
    /\ lock = 0
    /\ loaded = [i \in 1..Len(repos) |-> 0]
    /\ returned = [i \in 1..Len(repos) |-> 0]
    /\ printed = <<>>

CollectInit ==
    /\ dpc = "collecting"
    /\ repo_info = [i \in 1..Len(repos) |-> Unset]
    /\ collected = {}
    /\ fetched = <<>>
    /\ completed_count = 0
    /\ error_count = 0

DispIdle ==
    /\ dmode = "idle"
    /\ dpc = "idle"
    /\ repos = <<>>
    /\ max_workers = 1
    /\ tpc = <<>>
    /\ ext = <<>>
    /\ current = 0
    /\ lock = 0
    /\ loaded = <<>>
    /\ returned = <<>>
    /\ printed = <<>>
    /\ repo_info = <<>>
    /\ collected = {}
    /\ fetched = <<>>
    /\ completed_count = 0
    /\ error_count = 0

----------------------------------------------------------------------------
\* ProgressCounter.increment, statement by statement (SpecCounter).

\* (mutant) increment without "with self.lock".
LockFree_NoLock == TRUE

\* with self.lock: the lock can be taken when nobody holds it.
LockFree == lock = 0

\* A pool thread takes the next task; its checks run up to the call of
\* progress_counter.increment() (in the try block or in the except block).
WorkerStart(i) ==
    /\ dmode = "counter"
    /\ CanStart(i)
    /\ tpc' = [tpc EXCEPT ![i] = "checks"]
    /\ UNCHANGED <<dmode, repos, max_workers, ext, current, lock, loaded, returned, printed>>
    /\ UNCHANGED collectVars
    /\ DispOnly

WorkerChecks(i) ==
    /\ dmode = "counter"
    /\ tpc[i] = "checks"
    /\ \E o \in ReportOutcomes \ {"escape"} : ext' = [ext EXCEPT ![i] = o]
    /\ tpc' = [tpc EXCEPT ![i] = "acquire"]
    /\ UNCHANGED <<dmode, repos, max_workers, current, lock, loaded, returned, printed>>
    /\ UNCHANGED collectVars
    /\ DispOnly

IncAcquire(i) ==
    /\ dmode = "counter"
    /\ tpc[i] = "acquire"
    /\ LockFree
    /\ lock' = i
    /\ tpc' = [tpc EXCEPT ![i] = "load"]
    /\ UNCHANGED <<dmode, repos, max_workers, ext, current, loaded, returned, printed>>
    /\ UNCHANGED collectVars
    /\ DispOnly

\* self.current += 1 reads the attribute ...
IncLoad(i) ==
    /\ dmode = "counter"
    /\ tpc[i] = "load"
    /\ loaded' = [loaded EXCEPT ![i] = current]
    /\ tpc' = [tpc EXCEPT ![i] = "store"]
    /\ UNCHANGED <<dmode, repos, max_workers, ext, current, lock, returned, printed>>
    /\ UNCHANGED collectVars
    /\ DispOnly

\* ... and stores the sum.
IncStore(i) ==
    /\ dmode = "counter"
    /\ tpc[i] = "store"
    /\ current' = loaded[i] + 1
    /\ tpc' = [tpc EXCEPT ![i] = "return"]
    /\ UNCHANGED <<dmode, repos, max_workers, ext, lock, loaded, returned, printed>>
    /\ UNCHANGED collectVars
    /\ DispOnly

\* return self.current
IncReturn(i) ==
    /\ dmode = "counter"
    /\ tpc[i] = "return"
    /\ returned' = [returned EXCEPT ![i] = current]
    /\ tpc' = [tpc EXCEPT ![i] = "release"]
    /\ UNCHANGED <<dmode, repos, max_workers, ext, current, lock, loaded, printed>>
    /\ UNCHANGED collectVars
    /\ DispOnly

\* Leaving the with block.
IncRelease(i) ==
    /\ dmode = "counter"
    /\ tpc[i] = "release"
    /\ lock' = 0
    /\ tpc' = [tpc EXCEPT ![i] = "print"]
    /\ UNCHANGED <<dmode, repos, max_workers, ext, current, loaded, returned, printed>>
    /\ UNCHANGED collectVars
    /\ DispOnly

\* print(f"  [{current}/{progress_counter.total}] ...") with the value
\* increment() returned, after the lock was given back; the worker returns.
WorkerPrints(i) ==
    /\ dmode = "counter"
    /\ tpc[i] = "print"
    /\ printed' = Append(printed, returned[i])
    /\ tpc' = [tpc EXCEPT ![i] = "done"]
    /\ UNCHANGED <<dmode, repos, max_workers, ext, current, lock, loaded, returned>>
    /\ UNCHANGED collectVars
    /\ DispOnly

CounterNext ==
    \/ \E i \in Tasks : WorkerStart(i)
    \/ \E i \in Tasks : WorkerChecks(i)
    \/ \E i \in Tasks : IncAcquire(i)
    \/ \E i \in Tasks : IncLoad(i)
    \/ \E i \in Tasks : IncStore(i)
    \/ \E i \in Tasks : IncReturn(i)
    \/ \E i \in Tasks : IncRelease(i)
    \/ \E i \in Tasks : WorkerPrints(i)

CounterInit ==
    /\ PoolInit("counter", {DistinctRepos(n) : n \in 1..MaxRepos})
    /\ CollectInit

----------------------------------------------------------------------------
\* The dispatchers with their workers (SpecDispatch).  A worker call is two
\* steps: a pool thread takes it, and it returns.

\* repo_map = {repo["nameWithOwner"]: repo for repo in repos}: the record a
\* name maps to is the last one of the list with that name.
repo_map(name) ==
    CHOOSE j \in Tasks : repos[j] = name /\ \A m \in Tasks : m > j => repos[m] # name

\* (mutant) an exception from future.result() ends the loop.
dispatcher_pc_after_Abort(o) == IF o = "escape" THEN "aborted" ELSE "collecting"

\* The try/except around future.result() in both dispatchers: whatever the
\* future holds, the loop over as_completed goes on.
dispatcher_pc_after(o) == "collecting"

TaskStart(i) ==
    /\ dmode \in {"report", "fetch"}
    /\ CanStart(i)
    /\ tpc' = [tpc EXCEPT ![i] = "running"]
    /\ UNCHANGED <<dmode, repos, max_workers, ext, current, lock, loaded, returned, printed>>
    /\ UNCHANGED collectVars
    /\ DispOnly

\* check_repo_ci_and_issues_with_progress from its checks to its return.
\* increment() is taken as one step here; SpecCounter has its statements and
\* the writing of the progress line.
ReportWorkerFinish(i) ==
    /\ dmode = "report"
    /\ tpc[i] = "running"
    /\ \E o \in ReportOutcomes : ext' = [ext EXCEPT ![i] = o]
    /\ LockFree
    /\ current' = current + 1
    /\ returned' = [returned EXCEPT ![i] = current + 1]
    /\ tpc' = [tpc EXCEPT ![i] = "done"]
    /\ UNCHANGED <<dmode, repos, max_workers, lock, loaded, printed>>
    /\ UNCHANGED collectVars
    /\ DispOnly

\* fetch_prs_for_single_repo
FetchWorkerFinish(i) ==
    /\ dmode = "fetch"
    /\ tpc[i] = "running"
    /\ \E o \in FetchOutcomes : ext' = [ext EXCEPT ![i] = o]
    /\ tpc' = [tpc EXCEPT ![i] = "done"]
    /\ UNCHANGED <<dmode, repos, max_workers, current, lock, loaded, returned, printed>>
    /\ UNCHANGED collectVars
    /\ DispOnly

\* (mutant) as_completed yields a future whose worker is still running.
as_completed_Started(i) == tpc[i] # "queued" /\ i \notin collected

\* for future in as_completed(future_to_repo): each future is yielded once,
\* after its worker function has returned or raised.
as_completed(i) == tpc[i] = "done" /\ i \notin collected

\* One pass of "for future in as_completed(future_to_repo)" in
\* check_repos_ci_and_issues_parallel.
ReportCollect(i) ==
    /\ dmode = "report"
    /\ dpc = "collecting"
    /\ as_completed(i)
    /\ repo_info' =
         [repo_info EXCEPT ![repo_map(repos[i])] =
             IF ext[i] = "escape" THEN DefaultInfo ELSE report_worker_result(ext[i])]
    /\ collected' = collected \cup {i}
    /\ dpc' = dispatcher_pc_after(ext[i])
    /\ UNCHANGED <<fetched, completed_count, error_count>>
    /\ UNCHANGED poolVars
    /\ DispOnly

\* One pass of the same loop in fetch_prs_by_repo_list.
FetchCollect(i) ==
    /\ dmode = "fetch"
    /\ dpc = "collecting"
    /\ as_completed(i)
    /\ LET r == fetch_worker_result(repos[i], ext[i])
       IN  /\ completed_count' = completed_count + 1
           /\ error_count' =
                IF ext[i] = "escape" \/ r.error # None
                THEN error_count + 1
                ELSE error_count
           /\ fetched' =
                IF ext[i] = "escape" \/ r.error # None
                THEN fetched
                ELSE fetched \o r.prs
    /\ collected' = collected \cup {i}
    /\ dpc' = dispatcher_pc_after(ext[i])
    /\ UNCHANGED repo_info
    /\ UNCHANGED poolVars
    /\ DispOnly

\* The loop ends when as_completed has yielded every future.
DispatcherReturn ==
    /\ dmode \in {"report", "fetch"}
    /\ dpc = "collecting"
    /\ collected = Tasks
    /\ dpc' = "returned"
    /\ UNCHANGED <<repo_info, collected, fetched, completed_count, error_count>>
    /\ UNCHANGED poolVars
    /\ DispOnly

DispatchNext ==
    \/ \E i \in Tasks : TaskStart(i)
    \/ \E i \in Tasks : ReportWorkerFinish(i)
    \/ \E i \in Tasks : FetchWorkerFinish(i)
    \/ \E i \in Tasks : ReportCollect(i)
    \/ \E i \in Tasks : FetchCollect(i)
    \/ DispatcherReturn

DispatchInit ==
    /\ \/ PoolInit("report", UNION {RepoLists(n) : n \in 1..MaxRepos})
       \/ PoolInit("fetch", {DistinctRepos(n) : n \in 1..MaxRepos})
    /\ CollectInit

(***************************************************************************)
(*                 EXTERNAL CALLS AND THE COMMAND RUNNERS                  *)
(*                                                                         *)
(* One function of one script making its external calls: the gh CLI        *)
(* through the script's command runner or through subprocess.run           *)
(* directly, or an HTTP request through the audit script's session.  The   *)
(* external system answers each call in one of the ways below, or never.   *)
(***************************************************************************)

\* The timeout argument of a call, in seconds; NoTimeout when the call is
\* made without one.
NoTimeout == 0

\* The external calls modelled: the code that makes the call, and the
\* timeout it passes.
Sites ==
    {"issues_count", "issues_detail", "workflows", "runs",
     "search_prs", "pr_merge",
     "rate_limit", "pr_list",
     "session_get", "session_post"}

Via(s) ==
    CASE s \in {"issues_count", "issues_detail", "workflows", "runs"} -> "report.run_gh_command"
      [] s = "search_prs"                -> "merge.run_gh_command"
      [] s = "pr_merge"                  -> "merge.subprocess.run"
      [] s \in {"rate_limit", "pr_list"} -> "fetch.run_command"
      [] OTHER                           -> "audit.session"

Timeout(s) ==
    CASE s = "rate_limit" -> 10
      [] s = "pr_list"    -> 60
      [] OTHER            -> NoTimeout

\* What a command can print on exit 0.
Stdouts == {"", "\n", "null", "0", "2", "2\n", "[]", "[x]", "{x}", "garbage"}

\* str.strip
Strip(text) ==
    CASE text = "\n"  -> ""
      [] text = "2\n" -> "2"
      [] OTHER        -> text

\* What the external system can do with a call.
CommandAnswers ==
    [kind : {"exit0"}, text : Stdouts]
    \cup {[kind |-> "nonzero", text |-> ""], [kind |-> "never", text |-> ""]}

HttpAnswers ==
    [kind : {"http"}, text : {"200", "201", "404", "422", "500"}]
    \cup {[kind |-> "never", text |-> ""]}

AnswersAt(s) == IF Via(s) = "audit.session" THEN HttpAnswers ELSE CommandAnswers

NoAnswer == [kind |-> "none", text |-> ""]

\* json.loads: the type of the value, or "invalid" for JSONDecodeError.
json_loads(text) ==
    CASE text = "null"        -> "null"
      [] text \in {"0", "2", "2\n"} -> "number"
      [] text \in {"[]", "[x]"} -> "list"
      [] text = "{x}"         -> "dict"
      [] OTHER                -> "invalid"

\* str.isdigit / int() succeeding.
IsInt(text) == text \in {"0", "2", "2\n"}

IntOf(text) == IF text = "0" THEN 0 ELSE 2

\* What a call gives the code that made it: None, the text of stdout, a
\* parsed JSON value, an HTTP response, or an exception.
NoneResult == [kind |-> "none", text |-> ""]

Text(t) == [kind |-> "text", text |-> t]

Json(t) == [kind |-> "json", text |-> t]

Response(code) == [kind |-> "response", text |-> code]

Raises(e) == [kind |-> "raise", text |-> e]

NoResult == [kind |-> "pending", text |-> ""]

\* run_gh_command of the report script: stdout stripped, unparsed.
report_run_gh_command(a) ==
    IF a.kind = "exit0" THEN Text(Strip(a.text)) ELSE NoneResult

\* run_command of the PR fetch script: stdout, unparsed; TimeoutExpired
\* and CalledProcessError give None.
run_command(a) ==
    IF a.kind = "exit0" THEN Text(a.text) ELSE NoneResult

\* The kind of answer run_gh_command of the merge script sees.
ViewOf(a) ==
    CASE a.kind # "exit0"                -> "nonzero_exit"
      [] Strip(a.text) = ""              -> "empty_stdout"
      [] json_loads(a.text) = "invalid"  -> "malformed_json"
      [] OTHER                           -> "json"

\* run_gh_command of the merge script; JSON null parses to None.
merge_runner(a) ==
    LET r == merge_run_gh_command(ViewOf(a), Json(a.text))
    IN  IF r = NoStatusData \/ a.text = "null" THEN NoneResult ELSE r

\* subprocess.run(..., check=True) called directly by the merge script.
subprocess_run(a) ==
    IF a.kind = "exit0" THEN Text(a.text) ELSE Raises("CalledProcessError")

\* The call at site s, answered by a (a timeout included).
call_result(s, a) ==
    CASE Via(s) = "report.run_gh_command" -> report_run_gh_command(a)
      [] Via(s) = "fetch.run_command"     -> run_command(a)
      [] Via(s) = "merge.run_gh_command"  -> merge_runner(a)
      [] Via(s) = "merge.subprocess.run"  -> subprocess_run(a)
      [] OTHER                            -> Response(a.text)

\* Whether the runner prints a diagnostic for the answer.
call_logs(s, a) ==
    CASE Via(s) \in {"report.run_gh_command", "fetch.run_command"} -> a.kind # "exit0"
      [] Via(s) = "merge.run_gh_command" -> ViewOf(a) \in {"nonzero_exit", "malformed_json"}
      [] OTHER -> FALSE

\* The functions modelled, and the call each starts with.
Callers ==
    {"check_repo_issues", "check_repo_ci_status", "get_open_prs", "merge_attempt",
     "check_github_rate_limits", "fetch_prs_for_single_repo",
     "_make_request", "create_label"}

FirstSite(f) ==
    CASE f = "check_repo_issues"         -> "issues_count"
      [] f = "check_repo_ci_status"      -> "workflows"
      [] f = "get_open_prs"              -> "search_prs"
      [] f = "merge_attempt"             -> "pr_merge"
      [] f = "check_github_rate_limits"  -> "rate_limit"
      [] f = "fetch_prs_for_single_repo" -> "pr_list"
      [] f = "_make_request"             -> "session_get"
      [] OTHER                           -> "session_post"

Truthy(r) == r.kind # "none" /\ r.text # ""

Return(v) == [returns |-> v]

NoOut == [returns |-> "pending"]

\* Whether the function, given the result of its first call, makes its
\* second one.
CallsAgain(f, r) ==
    CASE f = "check_repo_issues" ->
            Truthy(r) /\ r.text # "null" /\ IsInt(r.text) /\ IntOf(r.text) # 0
      [] f = "check_repo_ci_status" ->
            Truthy(r) /\ IsInt(r.text) /\ IntOf(r.text) > 0
      [] OTHER -> FALSE

SecondSite(f) == IF f = "check_repo_issues" THEN "issues_detail" ELSE "runs"

\* check_repo_issues, r1 and r2 being the results of its calls.
check_repo_issues(r1, r2) ==
    IF ~Truthy(r1) \/ r1.text = "null"
    THEN Return([count |-> 0, issues |-> "[]"])
    ELSE IF ~IsInt(r1.text)
    THEN Raises("ValueError")
    ELSE IF IntOf(r1.text) = 0
    THEN Return([count |-> 0, issues |-> "[]"])
    ELSE IF Truthy(r2) /\ r2.text # "null" /\ json_loads(r2.text) # "invalid"
    THEN Return([count |-> IntOf(r1.text), issues |-> r2.text])
    ELSE Return([count |-> IntOf(r1.text), issues |-> "[]"])

\* check_repo_ci_status, likewise.
check_repo_ci_status(r1, r2) ==
    IF ~Truthy(r1)
    THEN Return([has_ci |-> FALSE, ci_status |-> "No CI", workflow_count |-> 0])
    ELSE IF ~IsInt(r1.text)
    THEN Raises("ValueError")
    ELSE IF IntOf(r1.text) = 0
    THEN Return([has_ci |-> FALSE, ci_status |-> "No CI", workflow_count |-> 0])
    ELSE IF ~Truthy(r2) \/ r2.text = "null"
    THEN Return([has_ci |-> TRUE, ci_status |-> "Has CI (No runs)",
                 workflow_count |-> IntOf(r1.text)])
    ELSE IF json_loads(r2.text) = "invalid"
    THEN Return([has_ci |-> TRUE, ci_status |-> "Unknown",
                 workflow_count |-> IntOf(r1.text)])
    ELSE IF json_loads(r2.text) # "dict"
    THEN Raises("AttributeError")
    ELSE Return([has_ci |-> TRUE, ci_status |-> "from latest run",
                 workflow_count |-> IntOf(r1.text)])

\* fetch_prs_for_single_repo: (prs, error)
fetch_prs_for_single_repo(r) ==
    IF ~Truthy(r) \/ Strip(r.text) = ""
    THEN Return([prs |-> "[]", error |-> None])
    ELSE IF json_loads(r.text) = "invalid"
    THEN Return([prs |-> "[]", error |-> "JSON decode error"])
    ELSE IF json_loads(r.text) # "list"
    THEN Return([prs |-> "[]", error |-> "Error"])
    ELSE Return([prs |-> r.text, error |-> None])

\* check_github_rate_limits
check_github_rate_limits(r) ==
    IF Truthy(r) /\ json_loads(r.text) = "dict"
    THEN Return("rate_limit_info")
    ELSE Return(None)

\* get_open_prs: result if result else []
get_open_prs(r) ==
    IF r.kind = "json" /\ r.text \notin {"0", "[]"} THEN Return(r.text) ELSE Return("[]")

\* The merge command in check_and_merge_pr: CalledProcessError is caught.
merge_command(r) ==
    IF r.kind = "raise" THEN Return("merge failed") ELSE Return("merged")

\* GitHubAuditor._make_request after session.get
make_request(r) ==
    CASE r.text = "404"            -> Return(None)
      [] r.text \in {"200", "201"} -> Return("json")
      [] OTHER                     -> Raises("HTTPError")

\* GitHubAuditor.create_label after session.post
create_label(r) == Return(IF r.text \in {"201", "422"} THEN "True" ELSE "False")

caller_result(f, r1, r2) ==
    CASE f = "check_repo_issues"         -> check_repo_issues(r1, r2)
      [] f = "check_repo_ci_status"      -> check_repo_ci_status(r1, r2)
      [] f = "get_open_prs"              -> get_open_prs(r1)
      [] f = "merge_attempt"             -> merge_command(r1)
      [] f = "check_github_rate_limits"  -> check_github_rate_limits(r1)
      [] f = "fetch_prs_for_single_repo" -> fetch_prs_for_single_repo(r1)
      [] f = "_make_request"             -> make_request(r1)
      [] OTHER                           -> create_label(r1)

RunIdle ==
    /\ rpc = "idle"
    /\ caller = None
    /\ site = None
    /\ answer = NoAnswer
    /\ result = NoResult
    /\ logged = FALSE
    /\ first = NoResult
    /\ out = NoOut

RunInit ==
    /\ rpc = "ready"
    /\ caller \in Callers
    /\ site = FirstSite(caller)
    /\ answer = NoAnswer
    /\ result = NoResult
    /\ logged = FALSE
    /\ first = NoResult
    /\ out = NoOut

\* The call is made; the external system will answer it in some way.
CallStarts ==
    /\ rpc = "ready"
    /\ rpc' = "waiting"
    /\ answer' \in AnswersAt(site)
    /\ result' = NoResult
    /\ logged' = FALSE
    /\ UNCHANGED <<caller, site, first, out>>
    /\ RunOnly

\* The external system answers and the call returns.
CallAnswered ==
    /\ rpc = "waiting"
    /\ answer.kind # "never"
    /\ rpc' = "returned"
    /\ result' = call_result(site, answer)
    /\ logged' = call_logs(site, answer)
    /\ UNCHANGED <<caller, site, answer, first, out>>
    /\ RunOnly

\* The external system stays silent and the timeout of the call expires.
TimeoutExpired ==
    /\ rpc = "waiting"
    /\ answer.kind = "never"
    /\ Timeout(site) # NoTimeout
    /\ rpc' = "returned"
    /\ result' = call_result(site, answer)
    /\ logged' = call_logs(site, answer)
    /\ UNCHANGED <<caller, site, answer, first, out>>
    /\ RunOnly

\* The function goes on to its second call.
SecondCall ==
    /\ rpc = "returned"
    /\ first = NoResult
    /\ CallsAgain(caller, result)
    /\ rpc' = "ready"
    /\ first' = result
    /\ site' = SecondSite(caller)
    /\ UNCHANGED <<caller, answer, result, logged, out>>
    /\ RunOnly

\* The function returns (or raises).
CallerReturns ==
    /\ rpc = "returned"
    /\ first # NoResult \/ ~CallsAgain(caller, result)
    /\ rpc' = "done"
    /\ out' = IF first = NoResult
              THEN caller_result(caller, result, NoResult)
              ELSE caller_result(caller, first, result)
    /\ UNCHANGED <<caller, site, answer, result, logged, first>>
    /\ RunOnly

RunNext ==
    \/ CallStarts
    \/ CallAnswered
    \/ TimeoutExpired
    \/ SecondCall
    \/ CallerReturns

(***************************************************************************)
(*              COMPLIANCE AUDIT SCRIPT: audit_repository                  *)
(*                                                                         *)
(* Scores are Python floats in the code; here they are exact fractions     *)
(* [num, den] in lowest terms, so that equalities between scores are       *)
(* equalities of the values the expressions denote.                        *)
(***************************************************************************)

\* Most standard labels missing from a repository that is audited with
\* label fixing on.
MaxMissing == 2

\* STANDARD_FILES, in dictionary order, and the required ones.
STANDARD_FILES ==
    <<"CODEOWNERS", "README", "LICENSE", "CONTRIBUTING", "CODE_OF_CONDUCT",
      "SECURITY", "CHANGELOG">>

RequiredFiles == {"CODEOWNERS", "README", "LICENSE"}

\* STANDARD_LABELS, in dictionary order.
STANDARD_LABELS ==
    <<"frontend", "backend", "bug", "feature", "documentation", "enhancement",
      "good first issue", "help wanted", "wontfix", "duplicate", "invalid",
      "question", "security", "performance", "testing", "triage", "planned",
      "in-review">>

\* str.lower() on the label names the model draws.
LabelLower(name) == IF name = "Bug" THEN "bug" ELSE name

RECURSIVE GCD(_, _)
GCD(a, b) == IF b = 0 THEN a ELSE GCD(b, a % b)

\* Fractions in lowest terms.
Frac(n, d) == LET g == GCD(n, d) IN [num |-> n \div g, den |-> d \div g]

FracAdd(x, y) == Frac(x.num * y.den + y.num * x.den, x.den * y.den)

FracMul(x, y) == Frac(x.num * y.num, x.den * y.den)

\* The sub-sequence of seq whose elements satisfy membership in S.
RECURSIVE SelectIn(_, _)
SelectIn(seq, S) ==
    IF seq = <<>> THEN <<>>
    ELSE IF Head(seq) \in S
         THEN <<Head(seq)>> \o SelectIn(Tail(seq), S)
         ELSE SelectIn(Tail(seq), S)

\* (variant) the two weights of the files score exchanged.
files_score_WeightsSwapped(required_files_found, required_files_total, files_found) ==
    IF required_files_total > 0
    THEN FracMul(FracAdd(FracMul(Frac(required_files_found, required_files_total), Frac(2, 10)),
                         FracMul(Frac(files_found, Len(STANDARD_FILES)), Frac(8, 10))),
                 Frac(100, 1))
    ELSE Frac(100, 1)

\* ((required_files_found / required_files_total * 0.8)
\*   + (files_found / len(STANDARD_FILES) * 0.2)) * 100
files_score(required_files_found, required_files_total, files_found) ==
    IF required_files_total > 0
    THEN FracMul(FracAdd(FracMul(Frac(required_files_found, required_files_total), Frac(8, 10)),
                         FracMul(Frac(files_found, Len(STANDARD_FILES)), Frac(2, 10))),
                 Frac(100, 1))
    ELSE Frac(100, 1)

\* (labels_found / labels_total) * 100
labels_score(labels_found, labels_total) ==
    IF labels_total > 0
    THEN FracMul(Frac(labels_found, labels_total), Frac(100, 1))
    ELSE Frac(100, 1)

\* files_score * 0.6 + labels_score * 0.4
overall_score(fs, ls) == FracAdd(FracMul(fs, Frac(6, 10)), FracMul(ls, Frac(4, 10)))

\* The standard labels found in / missing from a listing of label names.
ExistingIn(names) ==
    SelectIn(STANDARD_LABELS, {l \in Range(STANDARD_LABELS) : l \in {LabelLower(n) : n \in names}})

\* (variant) the else branch compares the names as listed, not lowered.
MissingFrom_CaseSensitive(names) ==
    SelectIn(STANDARD_LABELS, {l \in Range(STANDARD_LABELS) : l \notin names})

MissingFrom(names) ==
    SelectIn(STANDARD_LABELS, {l \in Range(STANDARD_LABELS) : l \notin {LabelLower(n) : n \in names}})

FileIssue(t) == [kind |-> "Missing required file", name |-> t]

LabelIssue(l) == [kind |-> "Missing standard label", name |-> l]

FileIssues(files) ==
    LET missing == SelectIn(STANDARD_FILES, {t \in RequiredFiles : t \notin files})
    IN  [i \in 1..Len(missing) |-> FileIssue(missing[i])]

LabelIssues(missing) == [i \in 1..Len(missing) |-> LabelIssue(missing[i])]

\* The issues of a list that are not of the given kind, order kept.
RECURSIVE Without(_, _)
Without(issues, kind) ==
    IF issues = <<>> THEN <<>>
    ELSE IF Head(issues).kind = kind
         THEN Without(Tail(issues), kind)
         ELSE <<Head(issues)>> \o Without(Tail(issues), kind)

\* audit_repository up to the overall score: the files pass, the labels
\* pass and the three scores.
scan(files, names) ==
    LET fs == files_score(Cardinality(files \cap RequiredFiles),
                          Cardinality(RequiredFiles),
                          Cardinality(files))
        ls == labels_score(Len(ExistingIn(names)), Len(STANDARD_LABELS))
    IN  [files         |-> [t \in Range(STANDARD_FILES) |-> t \in files],
         existing      |-> ExistingIn(names),
         missing       |-> MissingFrom(names),
         total_count   |-> Cardinality(names),
         files_score   |-> fs,
         labels_score  |-> ls,
         overall_score |-> overall_score(fs, ls),
         issues        |-> FileIssues(files) \o LabelIssues(MissingFrom(names))]

\* (variant) the labels and the scores are updated, the issues are not.
rescan_StaleIssues(ar, names) ==
    LET ls == labels_score(Len(ExistingIn(names)), Len(STANDARD_LABELS))
    IN  [ar EXCEPT !.existing      = ExistingIn(names),
                   !.missing       = MissingFrom(names),
                   !.total_count   = Cardinality(names),
                   !.labels_score  = ls,
                   !.overall_score = overall_score(ar.files_score, ls)]

\* The update of the record after labels were created.
rescan(ar, names) ==
    LET ls == labels_score(Len(ExistingIn(names)), Len(STANDARD_LABELS))
    IN  [ar EXCEPT !.existing      = ExistingIn(names),
                   !.missing       = MissingFrom(names),
                   !.total_count   = Cardinality(names),
                   !.labels_score  = ls,
                   !.overall_score = overall_score(ar.files_score, ls),
                   !.issues        = Without(ar.issues, "Missing standard label")
                                       \o LabelIssues(MissingFrom(names))]

NoAudit ==
    [files         |-> [t \in Range(STANDARD_FILES) |-> FALSE],
     existing      |-> <<>>,
     missing       |-> <<>>,
     total_count   |-> 0,
     files_score   |-> Frac(0, 1),
     labels_score  |-> Frac(0, 1),
     overall_score |-> Frac(0, 1),
     issues        |-> <<>>]

\* The first n standard labels.
FirstLabels(n) == {STANDARD_LABELS[i] : i \in 1..n}

\* The label listings drawn: the first n standard labels, as they are, or
\* with "bug" spelled "Bug", or with a label of the repository's own.
LabelListings(least) ==
    {FirstLabels(n) : n \in least..Len(STANDARD_LABELS)}
    \cup {(FirstLabels(n) \ {"bug"}) \cup {"Bug"} : n \in least..Len(STANDARD_LABELS)}
    \cup {FirstLabels(n) \cup {"custom"} : n \in least..Len(STANDARD_LABELS)}

\* What GitHub answers to one label creation.
LabelCodes == {201, 422, 403}

AuditIdle ==
    /\ apc = "idle"
    /\ repo_files = {}
    /\ repo_labels = {}
    /\ fix_labels = FALSE
    /\ create_issues = FALSE
    /\ audit_result = NoAudit
    /\ fix_ix = 0
    /\ created_count = 0
    /\ label_codes = <<>>
    /\ issue_calls = <<>>

AuditInit ==
    /\ apc = "start"
    /\ repo_files \in SUBSET Range(STANDARD_FILES)
    /\ fix_labels \in BOOLEAN
    /\ create_issues \in BOOLEAN
    /\ repo_labels \in LabelListings(IF fix_labels THEN Len(STANDARD_LABELS) - MaxMissing ELSE 0)
    /\ audit_result = NoAudit
    /\ fix_ix = 0
    /\ created_count = 0
    /\ label_codes = <<>>
    /\ issue_calls = <<>>

\* audit_repository from its entry to the overall score.
AuditScan ==
    /\ apc = "start"
    /\ audit_result' = scan(repo_files, repo_labels)
    /\ apc' = IF fix_labels /\ MissingFrom(repo_labels) # <<>> THEN "fixing" ELSE "fixed"
    /\ UNCHANGED <<repo_files, repo_labels, fix_labels, create_issues,
                   fix_ix, created_count, label_codes, issue_calls>>
    /\ AuditOnly

\* create_missing_labels: one create_label call.  201 creates the label;
\* 201 and 422 count.
CreateLabel ==
    /\ apc = "fixing"
    /\ fix_ix < Len(audit_result.missing)
    /\ \E code \in LabelCodes :
          /\ label_codes' = Append(label_codes, code)
          /\ repo_labels' = IF code = 201
                            THEN repo_labels \cup {audit_result.missing[fix_ix + 1]}
                            ELSE repo_labels
          /\ created_count' = IF code \in {201, 422} THEN created_count + 1 ELSE created_count
    /\ fix_ix' = fix_ix + 1
    /\ UNCHANGED <<apc, repo_files, fix_labels, create_issues, audit_result, issue_calls>>
    /\ AuditOnly

\* After create_missing_labels: the labels are listed again and the record
\* updated if anything was created.
AfterFix ==
    /\ apc = "fixing"
    /\ fix_ix = Len(audit_result.missing)
    /\ audit_result' = IF created_count > 0
                       THEN rescan(audit_result, repo_labels)
                       ELSE audit_result
    /\ apc' = "fixed"
    /\ UNCHANGED <<repo_files, repo_labels, fix_labels, create_issues,
                   fix_ix, created_count, label_codes, issue_calls>>
    /\ AuditOnly

IssueTitles ==
    [files  |-> "Repository Compliance: Missing Required Files",
     labels |-> "Repository Compliance: Missing Standard Labels"]

\* The create_or_update_issue calls of create_compliance_issues.
compliance_issue_calls(issues) ==
    LET file_issues  == Without(issues, "Missing standard label")
        label_issues == Without(issues, "Missing required file")
    IN  (IF file_issues # <<>>
         THEN <<[title |-> IssueTitles.files, list |-> file_issues]>> ELSE <<>>)
        \o (IF label_issues # <<>>
            THEN <<[title |-> IssueTitles.labels, list |-> label_issues]>> ELSE <<>>)

\* The end of audit_repository: compliance issues if requested, return.
AuditReturn ==
    /\ apc = "fixed"
    /\ issue_calls' = IF create_issues
                      THEN compliance_issue_calls(audit_result.issues)
                      ELSE <<>>
    /\ apc' = "returned"
    /\ UNCHANGED <<repo_files, repo_labels, fix_labels, create_issues, audit_result,
                   fix_ix, created_count, label_codes>>
    /\ AuditOnly

AuditNext ==
    \/ AuditScan
    \/ CreateLabel
    \/ AfterFix
    \/ AuditReturn

(***************************************************************************)
(*           COMPLIANCE AUDIT SCRIPT: create_or_update_issue               *)
(*                                                                         *)
(* The issues of one repository, and calls of create_or_update_issue on    *)
(* it.  The search lists every issue whose title holds the title searched  *)
(* for, in an order GitHub chooses.                                        *)
(***************************************************************************)

\* Most issues the repository holds before the first call.
MaxIssues == 2

\* Titles of the issues found on a repository: the two compliance titles,
\* a longer title holding the first of them, and any other.
Titles ==
    {IssueTitles.files, IssueTitles.labels,
     "Re: Repository Compliance: Missing Required Files", "Question"}

\* in:title "t" of the search query
TitleHolds(title, t) ==
    title = t \/ (t = IssueTitles.files /\ title = "Re: Repository Compliance: Missing Required Files")

IssueStores == SeqsUpTo([title : Titles, state : {"open", "closed"}], MaxIssues)

\* The numbers of the issues the search lists for t.
Matching(store, t) == {n \in 1..Len(store) : TitleHolds(store[n].title, t)}

\* The orders in which a set of numbers can be listed.
Orders(S) ==
    {q \in [1..Cardinality(S) -> S] : \A i, j \in 1..Cardinality(S) : i # j => q[i] # q[j]}

\* (variant) only the open issues are looked at, as a query with
\* state:open would have it.
search_issues_OpenOnly(store, items, title) ==
    LET exact == {i \in 1..Len(items) :
                     store[items[i]].title = title /\ store[items[i]].state = "open"}
    IN  IF exact = {} THEN 0 ELSE items[CHOOSE i \in exact : \A j \in exact : i <= j]

\* (variant) the first item listed is taken, whatever its title.
search_issues_FirstItem(store, items, title) == IF items = <<>> THEN 0 ELSE items[1]

\* search_issues: the first item whose title equals the title; 0 for None.
search_issues(store, items, title) ==
    LET exact == {i \in 1..Len(items) : store[items[i]].title = title}
    IN  IF exact = {} THEN 0 ELSE items[CHOOSE i \in exact : \A j \in exact : i <= j]

Http(method, target) == [method |-> method, target |-> target]

IssueIdle ==
    /\ ipc = "idle"
    /\ istore = <<>>
    /\ calls_left = 0
    /\ ititle = None
    /\ snapshot = <<>>
    /\ search_items = <<>>
    /\ existing_issue = 0
    /\ issue_http = <<>>
    /\ iret = None

\* One call on a repository holding any issues.
IssueInit ==
    /\ ipc = "ready"
    /\ istore \in IssueStores
    /\ calls_left = 1
    /\ ititle = None
    /\ snapshot = <<>>
    /\ search_items = <<>>
    /\ existing_issue = 0
    /\ issue_http = <<>>
    /\ iret = None

\* Most calls of create_or_update_issue that one sequence of audit runs makes.
MaxCalls == 3

\* No compliance title is carried by two issues.
NoDuplicates(store) ==
    \A t \in {IssueTitles.files, IssueTitles.labels} :
        Cardinality({n \in 1..Len(store) : store[n].title = t}) <= 1

\* Audit runs, one after the other, on a repository on which no compliance
\* title is carried by two issues: each run calls create_or_update_issue
\* for one or both of the titles.
RunsInit ==
    /\ ipc = "ready"
    /\ istore \in {st \in IssueStores : NoDuplicates(st)}
    /\ calls_left = MaxCalls
    /\ ititle = None
    /\ snapshot = <<>>
    /\ search_items = <<>>
    /\ existing_issue = 0
    /\ issue_http = <<>>
    /\ iret = None

\* create_or_update_issue is called with one of the two compliance titles.
CreateOrUpdateIssue ==
    /\ ipc \in {"ready", "done"}
    /\ calls_left > 0
    /\ calls_left' = calls_left - 1
    /\ ititle' \in {IssueTitles.files, IssueTitles.labels}
    /\ ipc' = "search"
    /\ snapshot' = <<>>
    /\ search_items' = <<>>
    /\ existing_issue' = 0
    /\ issue_http' = <<>>
    /\ iret' = None
    /\ UNCHANGED istore
    /\ IssueOnly

\* search_issues: the search is answered, and create_or_update_issue
\* decides on the issue found.
SearchAnswered ==
    /\ ipc = "search"
    /\ \E items \in Orders(Matching(istore, ititle)) :
          LET found == search_issues(istore, items, ititle)
          IN  /\ search_items' = items
              /\ existing_issue' = found
              /\ IF found # 0 /\ istore[found].state = "open"
                 THEN ipc' = "done" /\ iret' = "True"
                 ELSE IF found # 0
                      THEN ipc' = "reopen" /\ iret' = None
                      ELSE ipc' = "create" /\ iret' = None
    /\ snapshot' = istore
    /\ issue_http' = Append(issue_http, Http("GET", ititle))
    /\ UNCHANGED <<istore, calls_left, ititle>>
    /\ IssueOnly

\* The search fails: raise_for_status raises out of the call.
SearchFails ==
    /\ ipc = "search"
    /\ ipc' = "done"
    /\ iret' = "raised"
    /\ snapshot' = istore
    /\ issue_http' = Append(issue_http, Http("GET", ititle))
    /\ UNCHANGED <<istore, calls_left, ititle, search_items, existing_issue>>
    /\ IssueOnly

\* reopen_issue: PATCH state=open on the issue found.
ReopenIssue ==
    /\ ipc = "reopen"
    /\ \E code \in {200, 403} :
          /\ istore' = IF code = 200
                       THEN [istore EXCEPT ![existing_issue].state = "open"]
                       ELSE istore
          /\ iret' = IF code = 200 THEN "True" ELSE "False"
    /\ issue_http' = Append(issue_http, Http("PATCH", existing_issue))
    /\ ipc' = "done"
    /\ UNCHANGED <<calls_left, ititle, snapshot, search_items, existing_issue>>
    /\ IssueOnly

\* create_issue: POST a new issue with the title.
CreateIssue ==
    /\ ipc = "create"
    /\ \E code \in {201, 403} :
          /\ istore' = IF code = 201
                       THEN Append(istore, [title |-> ititle, state |-> "open"])
                       ELSE istore
          /\ iret' = IF code = 201 THEN "True" ELSE "False"
    /\ issue_http' = Append(issue_http, Http("POST", ititle))
    /\ ipc' = "done"
    /\ UNCHANGED <<calls_left, ititle, snapshot, search_items, existing_issue>>
    /\ IssueOnly

\* A user closes an open issue, at any moment.
UserCloses(n) ==
    /\ ipc # "idle"
    /\ n \in 1..Len(istore)
    /\ istore[n].state = "open"
    /\ istore' = [istore EXCEPT ![n].state = "closed"]
    /\ UNCHANGED <<ipc, calls_left, ititle, snapshot, search_items, existing_issue,
                   issue_http, iret>>
    /\ IssueOnly

IssueNext ==
    \/ CreateOrUpdateIssue
    \/ SearchAnswered
    \/ SearchFails
    \/ ReopenIssue
    \/ CreateIssue
    \/ \E n \in 1..(MaxIssues + 2) : UserCloses(n)

(***************************************************************************)
(*                    THE SCRIPTS' EXIT CODES                              *)
(*                                                                         *)
(* One run of one of the four scripts: what it requires, the items it      *)
(* processes (organizations for the report and audit scripts, pull         *)
(* requests for the merge script, owners for the PR fetch script), and     *)
(* the code the process exits with.                                        *)
(***************************************************************************)

\* Most items one run processes.
MaxItems == 2

Scripts == {"report", "merge", "fetch", "audit"}

\* The report script requires organizations, the audit script a token; the
\* other two take nothing they cannot run without.
Requires(script) == script \in {"report", "audit"}

\* How one item can go: it yields something, it yields nothing, or it
\* fails (the failure is caught where the item is processed).
ItemOutcomes == {"ok", "empty", "failed"}

\* (variant) the report script goes on without repositories.
no_repositories_Never(script, done) == FALSE

\* "if not repos: sys.exit(1)" of the report script: no organization
\* yielded a repository.
no_repositories(script, done) ==
    script = "report" /\ \A i \in 1..Len(done) : done[i] # "ok"

ExitIdle ==
    /\ xpc = "idle"
    /\ xscript = None
    /\ args_ok = TRUE
    /\ n_items = 0
    /\ outcomes = <<>>
    /\ fatal = FALSE
    /\ exit_code = -1

ExitInit ==
    /\ xpc = "start"
    /\ xscript \in Scripts
    /\ args_ok \in (IF Requires(xscript) THEN BOOLEAN ELSE {TRUE})
    /\ n_items \in (IF xscript = "report" THEN 1..MaxItems ELSE 0..MaxItems)
    /\ outcomes = <<>>
    /\ fatal = FALSE
    /\ exit_code = -1

\* The entry point: sys.exit(1) without organizations (report); the
\* ValueError of a missing token, caught at the top level (audit).
CheckRequired ==
    /\ xpc = "start"
    /\ IF args_ok
       THEN xpc' = "running" /\ exit_code' = -1
       ELSE xpc' = "exited" /\ exit_code' = 1
    /\ UNCHANGED <<xscript, args_ok, n_items, outcomes, fatal>>
    /\ ExitOnly

\* One item is processed; its failure is caught and the run goes on.
ItemProcessed ==
    /\ xpc = "running"
    /\ Len(outcomes) < n_items
    /\ \E o \in ItemOutcomes : outcomes' = Append(outcomes, o)
    /\ UNCHANGED <<xpc, xscript, args_ok, n_items, fatal, exit_code>>
    /\ ExitOnly

\* An exception reaches the top level: sys.exit(1) in the handlers of the
\* merge and audit scripts, the interpreter's exit code 1 in the other two.
TopLevelError ==
    /\ xpc = "running"
    /\ fatal' = TRUE
    /\ xpc' = "exited"
    /\ exit_code' = 1
    /\ UNCHANGED <<xscript, args_ok, n_items, outcomes>>
    /\ ExitOnly

\* The run reaches its end.
RunEnds ==
    /\ xpc = "running"
    /\ Len(outcomes) = n_items
    /\ xpc' = "exited"
    /\ exit_code' = IF no_repositories(xscript, outcomes) THEN 1 ELSE 0
    /\ UNCHANGED <<xscript, args_ok, n_items, outcomes, fatal>>
    /\ ExitOnly

ExitNext ==
    \/ CheckRequired
    \/ ItemProcessed
    \/ TopLevelError
    \/ RunEnds

(***************************************************************************)
(*                       THE SEQUENTIAL LOOPS                              *)
(*                                                                         *)
(* audit_organization going over the repositories of an organization and   *)
(* main of the merge script going over the open pull requests: one pass    *)
(* of the loop body per step, with the try/except around the item.         *)
(***************************************************************************)

\* Most items a loop goes over.
MaxLoop == 3

\* How the processing of an item goes: it returns, it raises KeyError (a
\* field the loop reads is missing), or it raises another exception.
LoopOutcomes(script) ==
    IF script = "merge" THEN {"ok", "KeyError", "raises"} ELSE {"ok", "raises"}

\* Only repositories are archived or not.
LoopItems(script) ==
    [archived : (IF script = "audit" THEN BOOLEAN ELSE {FALSE}),
     outcome  : LoopOutcomes(script)]

\* (variant) an exception ends the loop.
loop_after_Abort(outcome) == IF outcome = "ok" THEN "loop" ELSE "done"

\* "continue" in every except branch: the loop goes on to the next item.
loop_after(outcome) == "loop"

\* "if repo_data["archived"]: ... continue": args.include_archived is not
\* handed to audit_organization and is not read there.
skips(script, item, include) == script = "audit" /\ item.archived

\* What one pass does with its item.
pass_of(script, item, include) ==
    IF skips(script, item, include) THEN "skipped"
    ELSE IF item.outcome = "ok" THEN "processed"
    ELSE "caught"

\* stats["errors"] += 1 is in the "except Exception" branch of the merge
\* script only; the KeyError branch and audit_organization print.
counts_error(script, outcome) == script = "merge" /\ outcome = "raises"

LoopIdle ==
    /\ lpc = "idle"
    /\ lscript = None
    /\ include_archived = FALSE
    /\ litems = <<>>
    /\ handled = <<>>
    /\ main_errors = 0
    /\ diagnostics = <<>>
    /\ repositories = <<>>
    /\ archived_count = 0

LoopInit ==
    /\ lpc = "loop"
    /\ lscript \in {"audit", "merge"}
    /\ include_archived \in (IF lscript = "audit" THEN BOOLEAN ELSE {FALSE})
    /\ litems \in SeqsUpTo(LoopItems(lscript), MaxLoop)
    /\ handled = <<>>
    /\ main_errors = 0
    /\ diagnostics = <<>>
    /\ repositories = <<>>
    /\ archived_count = 0

\* One pass of "for repo_data in repos" / "for pr in all_prs".
LoopPass ==
    /\ lpc = "loop"
    /\ Len(handled) < Len(litems)
    /\ LET i    == Len(handled) + 1
           item == litems[i]
           what == pass_of(lscript, item, include_archived)
       IN  /\ handled' = Append(handled, what)
           /\ archived_count' = IF what = "skipped" THEN archived_count + 1 ELSE archived_count
           /\ repositories' = IF what = "processed" /\ lscript = "audit"
                              THEN Append(repositories, i) ELSE repositories
           /\ diagnostics' = IF what = "caught" THEN Append(diagnostics, i) ELSE diagnostics
           /\ main_errors' = IF what = "caught" /\ counts_error(lscript, item.outcome)
                             THEN main_errors + 1 ELSE main_errors
           /\ lpc' = IF what = "caught" THEN loop_after(item.outcome) ELSE "loop"
    /\ UNCHANGED <<lscript, include_archived, litems>>
    /\ LoopOnly

\* The loop has gone over every item.
LoopEnds ==
    /\ lpc = "loop"
    /\ Len(handled) = Len(litems)
    /\ lpc' = "done"
    /\ UNCHANGED <<lscript, include_archived, litems, handled, main_errors, diagnostics,
                   repositories, archived_count>>
    /\ LoopOnly

LoopNext ==
    \/ LoopPass
    \/ LoopEnds

(***************************************************************************)
(*                  THE TOGGLES OF THE REPORT SCRIPT                       *)
(*                                                                         *)
(* main from "check_ci = not args.no_ci_check" to the report: which        *)
(* lookups are made for the repositories.                                  *)
(***************************************************************************)

\* check_repo_ci_status: the workflow count, then the runs if there are
\* workflows.
ci_lookups(has_workflows) ==
    IF has_workflows THEN {"workflows", "runs"} ELSE {"workflows"}

\* check_repo_issues: the open issue count, then the issues if there are any.
issue_lookups(has_issues) ==
    IF has_issues THEN {"issues", "issues_detail"} ELSE {"issues"}

\* check_repo_ci_and_issues_with_progress(repo_name, progress_counter,
\* check_issues): check_repo_ci_status is called whatever the flags are.
worker_lookups(check_ci, check_issues, has_workflows, has_issues) ==
    ci_lookups(has_workflows)
        \cup (IF check_issues THEN issue_lookups(has_issues) ELSE {})

ToggleIdle ==
    /\ tgpc = "idle"
    /\ no_ci_check = FALSE
    /\ no_issues = FALSE
    /\ n_repos = 0
    /\ checked = {}
    /\ lookups = {}
    /\ not_checked = FALSE

ToggleInit ==
    /\ tgpc = "main"
    /\ no_ci_check \in BOOLEAN
    /\ no_issues \in BOOLEAN
    /\ n_repos \in 1..MaxRepos
    /\ checked = {}
    /\ lookups = {}
    /\ not_checked = FALSE

\* "if check_ci or check_issues:" in main; the else branch writes the
\* "Not checked" entries.
MainDecides ==
    /\ tgpc = "main"
    /\ IF ~no_ci_check \/ ~no_issues
       THEN tgpc' = "checking" /\ not_checked' = FALSE
       ELSE tgpc' = "done" /\ not_checked' = TRUE
    /\ UNCHANGED <<no_ci_check, no_issues, n_repos, checked, lookups>>
    /\ ToggleOnly

\* The worker of one repository makes its lookups.
WorkerLooksUp(r) ==
    /\ tgpc = "checking"
    /\ r \in (1..n_repos) \ checked
    /\ \E has_workflows \in BOOLEAN, has_issues \in BOOLEAN :
          lookups' = lookups \cup
              {[repo |-> r, site |-> x] :
                  x \in worker_lookups(~no_ci_check, ~no_issues, has_workflows, has_issues)}
    /\ checked' = checked \cup {r}
    /\ UNCHANGED <<tgpc, no_ci_check, no_issues, n_repos, not_checked>>
    /\ ToggleOnly

\* check_repos_ci_and_issues_parallel returns.
ChecksDone ==
    /\ tgpc = "checking"
    /\ checked = 1..n_repos
    /\ tgpc' = "done"
    /\ UNCHANGED <<no_ci_check, no_issues, n_repos, checked, lookups, not_checked>>
    /\ ToggleOnly

ToggleNext ==
    \/ MainDecides
    \/ \E r \in 1..MaxRepos : WorkerLooksUp(r)
    \/ ChecksDone

(***************************************************************************)
(*                        check_file_exists                                *)
(*                                                                         *)
(* One request to the contents endpoint per step, for the candidate paths  *)
(* of one standard file.                                                   *)
(***************************************************************************)

\* file_config["paths"] of CODEOWNERS, README and SECURITY.
PathLists ==
    {<<".github/CODEOWNERS", "CODEOWNERS", ".github/CODEOWNERS.md">>,
     <<"README.md", "README.rst", "README.txt", "README">>,
     <<".github/SECURITY.md", "SECURITY.md">>}

\* _make_request on the contents endpoint: None for 404, the JSON of the
\* entry for 200, an exception (raise_for_status) for any other status.
contents_request(path, present, errors) ==
    IF path \in errors THEN "raises"
    ELSE IF path \in present THEN "entry"
    ELSE None

\* (variant) the first match does not end the loop.
ends_probing_Never(got) == FALSE

\* "if result: return True, path"
ends_probing(got) == got # None

NotReturned == [exists |-> FALSE, path |-> "not returned"]

ProbeIdle ==
    /\ ppc = "idle"
    /\ file_paths = <<>>
    /\ repo_paths = {}
    /\ failing = {}
    /\ probed = <<>>
    /\ pret = NotReturned

ProbeInit ==
    /\ ppc = "probing"
    /\ file_paths \in PathLists
    /\ repo_paths \in SUBSET Range(file_paths)
    /\ failing \in SUBSET Range(file_paths)
    /\ probed = <<>>
    /\ pret = NotReturned

\* One pass of "for path in file_paths".
ProbePath ==
    /\ ppc = "probing"
    /\ Len(probed) < Len(file_paths)
    /\ LET path   == file_paths[Len(probed) + 1]
           got    == contents_request(path, repo_paths, failing)
       IN  /\ probed' = Append(probed, path)
           /\ IF got = "raises"
              THEN ppc' = "raised" /\ pret' = pret
              ELSE IF ends_probing(got)
                   THEN ppc' = "returned" /\ pret' = [exists |-> TRUE, path |-> path]
                   ELSE ppc' = "probing" /\ pret' = pret
    /\ UNCHANGED <<file_paths, repo_paths, failing>>
    /\ ProbeOnly

\* "return False, None" after the loop.
ProbeExhausted ==
    /\ ppc = "probing"
    /\ Len(probed) = Len(file_paths)
    /\ ppc' = "returned"
    /\ pret' = [exists |-> FALSE, path |-> None]
    /\ UNCHANGED <<file_paths, repo_paths, failing, probed>>
    /\ ProbeOnly

ProbeNext ==
    \/ ProbePath
    \/ ProbeExhausted

(***************************************************************************)
(*                        THE PAGINATION LOOPS                             *)
(*                                                                         *)
(* fetch_all_prs_for_owner and get_repo_list of the PR fetch script list   *)
(* through run_command; get_org_repos and get_repo_labels of the audit     *)
(* script through _make_request.  A page is held as the number of lines    *)
(* or entries of the answer; the upstream answers each request as it       *)
(* likes, and from page MaxPages on only with a page that is not full.     *)
(***************************************************************************)

\* The page from which the upstream holds no further full page.
MaxPages == 3

GhListers == {"fetch_all_prs_for_owner", "get_repo_list"}

HttpListers == {"get_org_repos", "get_repo_labels"}

\* The sizes of a page the model draws.
PageSizes == {0, 1, PerPage - 1, PerPage}

\* What the upstream does with the request of one page.
\*   gh: the command exits non-zero or times out ("fail"), or prints so many
\*     lines, `skipped` of them being lines the loop does not take (a line
\*     json.loads rejects; a line starting with "{");
\*   HTTP: 200 with so many entries, 404, or another error status.
UpstreamAnswers(fn) ==
    IF fn \in GhListers
    THEN {[status |-> "fail", lines |-> 0, skipped |-> 0]}
         \cup {[status |-> "ok", lines |-> n, skipped |-> k] :
                   n \in PageSizes, k \in {0, 1}}
    ELSE {[status |-> s, lines |-> 0, skipped |-> 0] : s \in {"not_found", "error"}}
         \cup {[status |-> "ok", lines |-> n, skipped |-> 0] : n \in PageSizes}

\* run_command / _make_request on the request of a page: None when the
\* command failed or the status is 404, an exception for any other error
\* status, the answer otherwise.
page_result(fn, a) ==
    CASE a.status \in {"fail", "not_found"} -> None
      [] a.status = "error"                 -> "raises"
      [] OTHER                              -> "data"

\* "if not result or not result.strip()", "if not repos_data",
\* "if not labels_data".
empty_page(fn, a) == page_result(fn, a) = None \/ a.lines = 0

\* The items the loop appends for a page.
page_items(fn, a) ==
    IF fn \in GhListers THEN a.lines - a.skipped ELSE a.lines

\* The number the loop compares with 100: pr_count, the lines of the
\* output, len(repos_data), len(labels_data).
page_count(fn, a) ==
    IF fn = "fetch_all_prs_for_owner" THEN a.lines - a.skipped ELSE a.lines

\* "if pr_count < 100: break" and its like.
last_page(fn, a) == page_count(fn, a) < PerPage

NotListed == <<[page |-> 0, n |-> 0]>>

PagesIdle ==
    /\ gpc = "idle"
    /\ lister = None
    /\ page = 0
    /\ pages_requested = <<>>
    /\ page_answers = <<>>
    /\ listed = <<>>
    /\ lret = NotListed

PagesInit ==
    /\ gpc = "listing"
    /\ lister \in GhListers \cup HttpListers
    /\ page = 1
    /\ pages_requested = <<>>
    /\ page_answers = <<>>
    /\ listed = <<>>
    /\ lret = NotListed

\* One pass of "while True": the request of the page, the test for an
\* empty answer, the items appended, the test for the last page.
ListPage ==
    /\ gpc = "listing"
    /\ \E a \in UpstreamAnswers(lister) :
          /\ page >= MaxPages => a.lines < PerPage
          /\ a.skipped <= a.lines
          /\ pages_requested' = Append(pages_requested, page)
          /\ page_answers' = Append(page_answers, a)
          /\ IF page_result(lister, a) = "raises"
             THEN gpc' = "raised" /\ listed' = listed /\ page' = page
             ELSE IF empty_page(lister, a)
                  THEN gpc' = "broke" /\ listed' = listed /\ page' = page
                  ELSE /\ listed' = Append(listed, [page |-> page, n |-> page_items(lister, a)])
                       /\ IF last_page(lister, a)
                          THEN gpc' = "broke" /\ page' = page
                          ELSE gpc' = "listing" /\ page' = page + 1
    /\ UNCHANGED <<lister, lret>>
    /\ PagesOnly

\* After the loop: the list is returned.
ListReturn ==
    /\ gpc = "broke"
    /\ gpc' = "returned"
    /\ lret' = listed
    /\ UNCHANGED <<lister, page, pages_requested, page_answers, listed>>
    /\ PagesOnly

PagesNext ==
    \/ ListPage
    \/ ListReturn

(***************************************************************************)
(*                          SPECIFICATIONS                                 *)
(***************************************************************************)

InitSpecMerge == MergeInit /\ DedupIdle /\ DispIdle /\ RunIdle /\ AuditIdle /\ IssueIdle /\ ExitIdle /\ LoopIdle /\ ToggleIdle /\ ProbeIdle /\ PagesIdle

SpecMerge == InitSpecMerge /\ [][MergeNext]_vars

InitSpecDedup == DedupInit /\ MergeIdle /\ DispIdle /\ RunIdle /\ AuditIdle /\ IssueIdle /\ ExitIdle /\ LoopIdle /\ ToggleIdle /\ ProbeIdle /\ PagesIdle

SpecDedup == InitSpecDedup /\ [][DedupNext]_vars

InitSpecCounter == CounterInit /\ MergeIdle /\ DedupIdle /\ RunIdle /\ AuditIdle /\ IssueIdle /\ ExitIdle /\ LoopIdle /\ ToggleIdle /\ ProbeIdle /\ PagesIdle

SpecCounter == InitSpecCounter /\ [][CounterNext]_vars

InitSpecGate == GateInit /\ MergeIdle /\ DispIdle /\ RunIdle /\ AuditIdle /\ IssueIdle /\ ExitIdle /\ LoopIdle /\ ToggleIdle /\ ProbeIdle /\ PagesIdle

SpecGate == InitSpecGate /\ [][GateNext]_vars

InitSpecDispatch == DispatchInit /\ MergeIdle /\ DedupIdle /\ RunIdle /\ AuditIdle /\ IssueIdle /\ ExitIdle /\ LoopIdle /\ ToggleIdle /\ ProbeIdle /\ PagesIdle

SpecDispatch == InitSpecDispatch /\ [][DispatchNext]_vars

InitSpecRunner == RunInit /\ MergeIdle /\ DedupIdle /\ DispIdle /\ AuditIdle /\ IssueIdle /\ ExitIdle /\ LoopIdle /\ ToggleIdle /\ ProbeIdle /\ PagesIdle

SpecRunner == InitSpecRunner /\ [][RunNext]_vars

InitSpecAudit == AuditInit /\ MergeIdle /\ DedupIdle /\ DispIdle /\ RunIdle /\ IssueIdle /\ ExitIdle /\ LoopIdle /\ ToggleIdle /\ ProbeIdle /\ PagesIdle

SpecAudit == InitSpecAudit /\ [][AuditNext]_vars

InitSpecIssue ==
    IssueInit /\ MergeIdle /\ DedupIdle /\ DispIdle /\ RunIdle /\ AuditIdle /\ ExitIdle /\ LoopIdle /\ ToggleIdle /\ ProbeIdle /\ PagesIdle

SpecIssue == InitSpecIssue /\ [][IssueNext]_vars

InitSpecRuns ==
    RunsInit /\ MergeIdle /\ DedupIdle /\ DispIdle /\ RunIdle /\ AuditIdle /\ ExitIdle /\ LoopIdle /\ ToggleIdle /\ ProbeIdle /\ PagesIdle

SpecRuns == InitSpecRuns /\ [][IssueNext]_vars

InitSpecExit ==
    ExitInit /\ MergeIdle /\ DedupIdle /\ DispIdle /\ RunIdle /\ AuditIdle /\ IssueIdle /\ LoopIdle /\ ToggleIdle /\ ProbeIdle /\ PagesIdle

SpecExit == InitSpecExit /\ [][ExitNext]_vars

InitSpecLoop ==
    LoopInit /\ MergeIdle /\ DedupIdle /\ DispIdle /\ RunIdle /\ AuditIdle /\ IssueIdle /\ ExitIdle /\ ToggleIdle /\ ProbeIdle /\ PagesIdle

SpecLoop == InitSpecLoop /\ [][LoopNext]_vars

InitSpecToggle ==
    ToggleInit /\ MergeIdle /\ DedupIdle /\ DispIdle /\ RunIdle /\ AuditIdle /\ IssueIdle /\ ExitIdle
        /\ LoopIdle /\ ProbeIdle /\ PagesIdle

SpecToggle == InitSpecToggle /\ [][ToggleNext]_vars

InitSpecProbe ==
    ProbeInit /\ MergeIdle /\ DedupIdle /\ DispIdle /\ RunIdle /\ AuditIdle /\ IssueIdle /\ ExitIdle
        /\ LoopIdle /\ ToggleIdle /\ PagesIdle

SpecProbe == InitSpecProbe /\ [][ProbeNext]_vars

InitSpecPages ==
    PagesInit /\ MergeIdle /\ DedupIdle /\ DispIdle /\ RunIdle /\ AuditIdle /\ IssueIdle /\ ExitIdle
        /\ LoopIdle /\ ToggleIdle /\ ProbeIdle

SpecPages == InitSpecPages /\ [][PagesNext]_vars

----------------------------------------------------------------------------
\* Claims about the merge policy.

MergeIssued == \E i \in 1..Len(cmds) : cmds[i].cmd \in {"merge", "auto_merge"}

\* A check that passed: a check run that concluded SUCCESS, or a commit
\* status whose state is SUCCESS.
Passed(c) == c.conclusion = "SUCCESS" \/ c.state = "SUCCESS"

\* C1: a merge command is issued for a pull request only when it is
\* MERGEABLE and every check of its statusCheckRollup passed (an empty
\* list included).
C1_MergeOnlyWhenAllChecksPassed ==
    (mpc = "returned" /\ MergeIssued) =>
        /\ status_data.mergeable = "MERGEABLE"
        /\ \A c \in Range(status_data.statusCheckRollup) : Passed(c)

HasFailed(sd) ==
    \E c \in Range(sd.statusCheckRollup) : c.conclusion \in FailedConclusions

HasPending(sd) ==
    \E c \in Range(sd.statusCheckRollup) : c.status \in PendingStatuses

OnlyCounted(k) ==
    \A j \in StatKeys \ {"total_prs", "errors", "dependabot_recreated"} :
        stats[j] = (IF j = k THEN 1 ELSE 0)

----------------------------------------------------------------------------
\* Claims about the deduplication of the PR fetch script.

Fetched == prs1 \o prs2

KeysOf(prs) == {Key(prs[i]) : i \in 1..Len(prs)}

Holding(prs, k) == {i \in 1..Len(prs) : Key(prs[i]) = k}

\* C3: after an owner is processed, every key of either fetch result has
\* exactly one record in the deduplicated list, that record is one of the
\* fetched records with the key, and the list handed to the report never
\* holds two records with the same (repository, number).
C3_OneRecordPerKey ==
    /\ owner_ix > 0 =>
          /\ KeysOf(owner_prs) = KeysOf(Fetched)
          /\ \A k \in KeysOf(Fetched) :
                /\ Cardinality(Holding(owner_prs, k)) = 1
                /\ Cardinality(Holding(all_prs, k)) = 1
                /\ \A i \in Holding(owner_prs, k) :
                      \E j \in Holding(Fetched, k) : owner_prs[i] = Fetched[j]
    /\ \A i, j \in 1..Len(all_prs) : Key(all_prs[i]) = Key(all_prs[j]) => i = j

\* Both paths returned the same key, one of them twice.
C3_Witness ==
    /\ fpc = "report"
    /\ \E k \in KeysOf(prs1) \cap KeysOf(prs2) :
          Cardinality(Holding(Fetched, k)) = 3
    /\ Len(all_prs) >= 2

BothPaths == KeysOf(prs1) \cap KeysOf(prs2)

Last(S) == CHOOSE i \in S : \A j \in S : j <= i

First(S) == CHOOSE i \in S : \A j \in S : i <= j

\* C4 as claimed: for a key both paths return, the record kept is the last
\* one of prs1 + prs2 with that key (the per-repo listing record).
C4_LastWriterWins ==
    owner_ix > 0 =>
        \A k \in BothPaths :
            \A i \in Holding(owner_prs, k) :
                owner_prs[i] = Fetched[Last(Holding(Fetched, k))]

\* C4 amended: the record kept is the first one of prs1 + prs2 with that
\* key, which is a search-path record when both paths return the key.
C4_FirstWriterWins ==
    owner_ix > 0 =>
        \A k \in BothPaths :
            \A i \in Holding(owner_prs, k) :
                /\ owner_prs[i] = Fetched[First(Holding(Fetched, k))]
                /\ owner_prs[i].item.path = "search"

C4_Witness ==
    /\ owner_ix > 0
    /\ BothPaths # {}
    /\ \A k \in BothPaths : Cardinality(Holding(owner_prs, k)) = 1

----------------------------------------------------------------------------
\* Claims about ProgressCounter.

AllDone == \A i \in Tasks : tpc[i] = "done"

\* C6: no lost updates.  Once every worker has made its call of
\* increment(), current equals the number of calls and the values returned
\* are 1..T, each returned once.
C6_NoLostUpdates ==
    (dmode = "counter" /\ AllDone) =>
        /\ current = Len(repos)
        /\ {returned[i] : i \in Tasks} = 1..Len(repos)

\* Three calls on two threads, the first task submitted served last.
C6_Witness ==
    /\ dmode = "counter"
    /\ AllDone
    /\ Len(repos) = MaxRepos
    /\ max_workers >= 2
    /\ returned[1] > returned[2]

----------------------------------------------------------------------------
\* Claims about the dispatchers.

WorkersOf(name) == {i \in Tasks : repos[i] = name}

\* What the future of task i yields to the dispatcher of the report script.
ReportResult(i) ==
    IF ext[i] \in {"info_a", "info_b"} THEN InfoOf(ext[i]) ELSE DefaultInfo

FetchFailed(i) == ext[i] \in {"bad_json", "raise", "escape"}

PrsFor(i) == SelectSeq(fetched, LAMBDA pr : pr.repository = repos[i])

ExpectedPrs(i) ==
    CASE ext[i] = "prs1" -> PrsOf(repos[i], 1)
      [] ext[i] = "prs2" -> PrsOf(repos[i], 2)
      [] OTHER           -> <<>>

\* C5: one worker failing does not abort the batch.  The dispatcher never
\* stops early, and when it returns every item has been collected; in the
\* report script the entry of each name in the results mapping is what a
\* worker of that name returned (the default for a failed one), in the PR
\* fetch script the list holds exactly the pull requests the workers that
\* did not fail returned and none for a failed one, whatever the order of
\* completion.
C5_PartialFailureIsolation ==
    /\ dpc # "aborted"
    /\ dpc = "returned" =>
         /\ collected = Tasks
         /\ dmode = "report" =>
              \A i \in Tasks :
                  /\ repo_info[repo_map(repos[i])] # Unset
                  /\ repo_info[repo_map(repos[i])] \in
                        {ReportResult(j) : j \in WorkersOf(repos[i])}
         /\ dmode = "fetch" =>
              /\ \A i \in Tasks : PrsFor(i) = ExpectedPrs(i)
              /\ completed_count = Len(repos)
              /\ error_count = Cardinality({i \in Tasks : FetchFailed(i)})

\* Three repositories of the PR fetch script: the worker of the first
\* fails, the other two return pull requests and complete in the reverse
\* of the order they were submitted in.
C5_Witness ==
    /\ dmode = "fetch"
    /\ dpc = "returned"
    /\ Len(repos) = 3
    /\ ext[1] = "escape"
    /\ ext[2] = "prs1"
    /\ ext[3] = "prs2"
    /\ fetched = PrsOf(3, 2) \o PrsOf(2, 1)

----------------------------------------------------------------------------
\* Claims about the rate-limit gate.

CoreNeeded == estimates.repo_list_requests + estimates.pr_list_requests

SearchNeeded == estimates.search_requests

Validated == fpc # "validate"

Shortfall ==
    rate_limits.known
    /\ (CoreNeeded > rate_limits.core \/ SearchNeeded > rate_limits.search)

FetchingStarted == fpc \in {"loop", "report", "done"}

\* The answers that confirm: y, in either case, blanks around it or not.
Confirms(text) == text \in {"y", "Y", " y "}

\* C7: with the quota known and the need within it for both classes the
\* fetch starts unprompted; with the need above the remaining quota of
\* either class the operator is asked, and the fetch starts only on a
\* confirming answer; any other answer, or an interrupt, aborts with
\* nothing fetched and no report written.
C7_RateLimitGate ==
    Validated =>
        /\ (rate_limits.known /\ ~Shortfall) => (~prompted /\ FetchingStarted)
        /\ Shortfall => prompted
        /\ (Shortfall /\ FetchingStarted) => Confirms(response)
        /\ (prompted /\ response # None /\ ~Confirms(response)) =>
              /\ fpc = "aborted"
              /\ owner_ix = 0
              /\ prs1 = <<>> /\ prs2 = <<>> /\ all_prs = <<>>

\* remaining=50 against a need of 200 on the core class: asked, answered
\* y, and the run went on to its report.
C7_Witness ==
    /\ rate_limits.known
    /\ rate_limits.core = 50
    /\ CoreNeeded = 200
    /\ SearchNeeded <= rate_limits.search
    /\ prompted
    /\ response = "y"
    /\ fpc = "done"
    /\ all_prs # <<>>

----------------------------------------------------------------------------
\* Claims about the external calls.

Silent == rpc = "waiting" /\ answer.kind = "never"

\* C8: no call waits without a timeout on an external system that never
\* answers.
C8_NoCallBlocksIndefinitely == Silent => Timeout(site) # NoTimeout

ThroughRunner ==
    Via(site) \in {"report.run_gh_command", "merge.run_gh_command", "fetch.run_command"}

MalformedJson ==
    answer.kind = "exit0" /\ Strip(answer.text) # "" /\ json_loads(answer.text) = "invalid"

CommandFailed == answer.kind \in {"nonzero", "never"}

\* C9: a command runner answered by a non-zero exit, a timeout or malformed
\* JSON raises nothing: it prints a diagnostic and returns None.
C9_RunnersConvertToNone ==
    (rpc = "returned" /\ ThroughRunner /\ (CommandFailed \/ MalformedJson)) =>
        (result = NoneResult /\ logged)

\* C10: when the command fails, check_repo_issues does not return a count
\* of 0 issues, check_repo_ci_status does not return "No CI" with 0
\* workflows, and fetch_prs_for_single_repo does not return an empty list
\* without an error.
C10_SentinelIsUnknown ==
    (rpc = "done" /\ CommandFailed) =>
        /\ caller = "check_repo_issues" =>
              out # Return([count |-> 0, issues |-> "[]"])
        /\ caller = "check_repo_ci_status" =>
              out # Return([has_ci |-> FALSE, ci_status |-> "No CI", workflow_count |-> 0])
        /\ caller = "fetch_prs_for_single_repo" =>
              out # Return([prs |-> "[]", error |-> None])

----------------------------------------------------------------------------
\* Claims about the compliance scores.

RequiredFound == Cardinality(repo_files \cap RequiredFiles)

RequiredTotal == Cardinality(RequiredFiles)

AllFound == Cardinality(repo_files)

AllTotal == Len(STANDARD_FILES)

LabelsFound == Len(audit_result.existing)

LabelsTotal == Len(STANDARD_LABELS)

Scored == apc \in {"fixing", "fixed", "returned"}

\* x = a / b, for a fraction x
FracIs(x, a, b) == x.num * b = x.den * a

OverallIsWeighted ==
    LET f == audit_result.files_score
        l == audit_result.labels_score
    IN  FracIs(audit_result.overall_score,
               6 * f.num * l.den + 4 * l.num * f.den, 10 * f.den * l.den)

\* C11 as stated: files_score is the 0.8/0.2 combination of the two ratios
\* itself, labels_score is the percentage, overall_score the 0.6/0.4
\* combination.
C11_ScoresAsStated ==
    Scored =>
        /\ FracIs(audit_result.files_score,
                  8 * RequiredFound * AllTotal + 2 * AllFound * RequiredTotal,
                  10 * RequiredTotal * AllTotal)
        /\ FracIs(audit_result.labels_score, 100 * LabelsFound, LabelsTotal)
        /\ OverallIsWeighted

\* C11: files_score is 100 times the 0.8/0.2 combination of required
\* found / required total and all found / all total; labels_score is 100
\* times found / total; overall_score is files_score * 0.6 +
\* labels_score * 0.4.
C11_ScoresArePercentages ==
    Scored =>
        /\ FracIs(audit_result.files_score,
                  100 * (8 * RequiredFound * AllTotal + 2 * AllFound * RequiredTotal),
                  10 * RequiredTotal * AllTotal)
        /\ FracIs(audit_result.labels_score, 100 * LabelsFound, LabelsTotal)
        /\ OverallIsWeighted

\* All 3 required files and one more (4 of 7 found; the required files
\* count among the seven), 9 of the 18 labels: files_score is 640/7,
\* labels_score is 50.
C11_Witness ==
    /\ apc = "returned"
    /\ RequiredFound = 3
    /\ AllFound = 4
    /\ LabelsFound = 9
    /\ audit_result.labels_score = [num |-> 50, den |-> 1]
    /\ audit_result.files_score = [num |-> 640, den |-> 7]

----------------------------------------------------------------------------
\* Claims about create_or_update_issue.

Methods == {issue_http[i].method : i \in 1..Len(issue_http)}

Searched == ipc \in {"reopen", "create", "done"} /\ iret # "raised"

\* The issues of the title searched for, as they were at the search.
ExactMatches == {n \in 1..Len(snapshot) : snapshot[n].title = ititle}

\* The exact-title match: of the issues with the title, the one the search
\* listed first.
TheMatch ==
    IF ExactMatches = {} THEN 0
    ELSE LET at == {i \in 1..Len(search_items) : search_items[i] \in ExactMatches}
         IN  search_items[CHOOSE i \in at : \A j \in at : i <= j]

----------------------------------------------------------------------------
\* Claims about the merge attempt and the Dependabot comment.

CmdsNamed(c) == {i \in 1..Len(cmds) : cmds[i].cmd = c}

PolicyText == "X Pull request is not mergeable: the base branch policy prohibits the merge."

SquashFailed == \E i \in CmdsNamed("merge") : cmds[i].rc = "fail"

SquashFailedOn(text) ==
    \E i \in CmdsNamed("merge") : cmds[i].rc = "fail" /\ cmds[i].stderr = text

\* C13: a squash-merge refused by the branch policy is followed by exactly
\* one auto-merge request, and if that succeeds the pull request counts in
\* auto_merged_prs and not in errors; a squash-merge that failed for any
\* other reason counts in errors and no auto-merge request follows.
C13_PolicyBlockRetriesAsAutoMerge ==
    (mpc = "returned" /\ SquashFailed) =>
        /\ Cardinality(CmdsNamed("merge")) = 1
        /\ stats["merged_prs"] = 0
        /\ SquashFailedOn(PolicyText) =>
              /\ Cardinality(CmdsNamed("auto_merge")) = 1
              /\ cmds[Len(cmds)].cmd = "auto_merge"
              /\ cmds[Len(cmds)].rc = "ok" =>
                    (stats["auto_merged_prs"] = 1 /\ stats["errors"] = 0)
              /\ cmds[Len(cmds)].rc = "fail" =>
                    (stats["auto_merged_prs"] = 0 /\ stats["errors"] = 1)
        /\ ~SquashFailedOn(PolicyText) =>
              /\ CmdsNamed("auto_merge") = {}
              /\ stats["errors"] = 1
              /\ stats["auto_merged_prs"] = 0

\* Refused by the branch policy, queued for auto-merge.
C13_Witness ==
    /\ mpc = "returned"
    /\ SquashFailedOn(PolicyText)
    /\ Len(cmds) = 3
    /\ cmds[3] = Cmd("auto_merge", "ok", "")
    /\ stats["auto_merged_prs"] = 1
    /\ stats["errors"] = 0

ByTheBot == author \in {"dependabot[bot]", "Dependabot"}

\* C14: the "@dependabot recreate" comment is posted exactly when the pull
\* request is not mergeable, is the bot's and its merge state is DIRTY;
\* then no merge command is issued.
C14_RecreateOnlyDirtyBotPr ==
    mpc = "returned" =>
        /\ CmdsNamed("comment") # {} <=>
              /\ status_data # NoStatusData
              /\ status_data.mergeable # "MERGEABLE"
              /\ ByTheBot
              /\ status_data.mergeStateStatus = "DIRTY"
        /\ CmdsNamed("comment") # {} =>
              (Cardinality(CmdsNamed("comment")) = 1 /\ ~MergeIssued)

\* A conflicting, DIRTY pull request of "Dependabot": commented, not merged.
C14_Witness ==
    /\ mpc = "returned"
    /\ author = "Dependabot"
    /\ status_data.mergeable = "CONFLICTING"
    /\ status_data.mergeStateStatus = "DIRTY"
    /\ cmds = <<Cmd("view", "ok", ""), Cmd("comment", "ok", "")>>
    /\ stats["dependabot_recreated"] = 1

----------------------------------------------------------------------------
\* Claims about the exit codes.

SomeItemYielded == \E i \in 1..Len(outcomes) : outcomes[i] = "ok"

SomeItemFailed == \E i \in 1..Len(outcomes) : outcomes[i] = "failed"

\* C15 as stated: exit code 1 when what is required is missing or an error
\* reached the top level, 0 otherwise, whatever happened to the items.
C15_ExitCodeAsStated ==
    xpc = "exited" =>
        exit_code = (IF ~args_ok \/ fatal THEN 1 ELSE 0)

\* C15: exit code 1 when what is required is missing, when an error
\* reached the top level, or, in the report script, when no organization
\* yielded a repository; 0 otherwise.  Failed items do not change the code
\* of a run in which some item yielded.
C15_ExitCode ==
    xpc = "exited" =>
        /\ exit_code = (IF ~args_ok \/ fatal \/ (xscript = "report" /\ ~SomeItemYielded)
                        THEN 1 ELSE 0)
        /\ (args_ok /\ ~fatal /\ xscript # "report") => exit_code = 0
        /\ (args_ok /\ ~fatal /\ SomeItemYielded) => exit_code = 0

\* The audit script, one organization failed and one audited: exit code 0.
C15_Witness ==
    /\ xpc = "exited"
    /\ xscript = "audit"
    /\ outcomes = <<"failed", "ok">>
    /\ exit_code = 0

----------------------------------------------------------------------------
\* C16: the progress lines of the report script's workers carry the values
\* 1, 2, ..., total in that order, each once, under every interleaving: at
\* every moment the lines written so far carry 1, 2, ..., up to their number.
C16_ProgressLinesInOrder ==
    dmode = "counter" => printed = [k \in 1..Len(printed) |-> k]

----------------------------------------------------------------------------
\* The results of a dispatcher: the records' ci_info/issues_info, and
\* all_prs with the two counts.
Results == <<repo_info, fetched, completed_count, error_count>>

WorkerMoved(i) == tpc'[i] # tpc[i]

\* What belongs to the call of one worker function (its position, what its
\* external calls did, its locals in increment()).
LocalsOf(j) == <<tpc[j], ext[j], loaded[j], returned[j]>>

ResultsWrittenByDispatcher ==
    Results' # Results =>
        /\ dpc = "collecting"
        /\ tpc' = tpc
        /\ current' = current
        /\ \E i \in Tasks :
             /\ tpc[i] = "done"
             /\ i \notin collected
             /\ collected' = collected \cup {i}

WorkersTouchOnlyCounter ==
    \A i \in Tasks :
        WorkerMoved(i) =>
            /\ Results' = Results
            /\ collected' = collected
            /\ \A j \in Tasks \ {i} : LocalsOf(j)' = LocalsOf(j)

CounterUnderMutex ==
    current' # current =>
        \E i \in Tasks :
            /\ WorkerMoved(i)
            /\ lock \in {0, i}
            /\ lock = 0 => (lock' = 0 /\ tpc'[i] = "done")

\* C17: the worker threads share no mutable state but the progress counter,
\* which changes only in the thread holding its lock (or within one whole
\* call of increment() made while the lock is free); the results are
\* written by the dispatching thread only, one completed future at a time,
\* never in a step of a worker.
C17_OnlyDispatcherWritesResults ==
    [][ResultsWrittenByDispatcher /\ WorkersTouchOnlyCounter /\ CounterUnderMutex]_vars

\* The dispatching thread has written a result while a worker was running.
C17_Witness ==
    /\ dmode \in {"report", "fetch"}
    /\ \E i \in collected : repo_info[i] # Unset \/ completed_count > 0
    /\ \E j \in Tasks : tpc[j] = "running"
    /\ current > 0 \/ dmode = "fetch"

----------------------------------------------------------------------------
\* Both "gh pr merge ... --squash --delete-branch" and the same command
\* with --auto are merge commands for the pull request.
MergeCommands == CmdsNamed("merge") \cup CmdsNamed("auto_merge")

FailedCommands == {i \in 1..Len(cmds) : cmds[i].rc = "fail"}

----------------------------------------------------------------------------
ComplianceTitles ==
    {"Repository Compliance: Missing Required Files",
     "Repository Compliance: Missing Standard Labels"}

IssuesTitled(t) == {n \in 1..Len(istore) : istore[n].title = t}

FoundOpen ==
    /\ ipc = "done"
    /\ iret # "raised"
    /\ \E n \in 1..Len(snapshot) : snapshot[n].title = ititle /\ snapshot[n].state = "open"

----------------------------------------------------------------------------
\* The standard labels the repository holds now, whatever the case of
\* their letters, and those it does not hold.
HeldNow == {l \in Range(STANDARD_LABELS) : \E n \in repo_labels : LabelLower(n) = l}

NotHeldNow == Range(STANDARD_LABELS) \ HeldNow

CodesIn(S) == {i \in 1..Len(label_codes) : label_codes[i] \in S}

IssuesOfKind(kind) ==
    SelectIn(audit_result.issues, {x \in Range(audit_result.issues) : x.kind = kind})

Remediated == fix_labels /\ apc \in {"fixed", "returned"}

\* The create_or_update_issue call for the labels lists exactly the
\* standard labels the repository does not hold after the remediation.
LabelsCallIsCurrent ==
    LET calls == {i \in 1..Len(issue_calls) :
                     issue_calls[i].title = "Repository Compliance: Missing Standard Labels"}
    IN  /\ calls # {} <=> NotHeldNow # {}
        /\ \A i \in calls :
              {x.name : x \in Range(issue_calls[i].list)} = NotHeldNow

\* C20: with label remediation requested, one create call is made for
\* every missing label, 201 and 422 both counting as done; afterwards the
\* record's existing and missing labels, labels_score, overall_score and
\* "Missing standard label" issues are those of the labels the repository
\* holds after the create calls, whatever the calls answered; and the
\* issues created are those of that record.
C20_RecordFollowsRemediation ==
    Remediated =>
        /\ Len(label_codes) = Cardinality(NotHeldNow) + Cardinality(CodesIn({201}))
        /\ created_count = Cardinality(CodesIn({201, 422}))
        /\ audit_result.existing = SelectIn(STANDARD_LABELS, HeldNow)
        /\ audit_result.missing = SelectIn(STANDARD_LABELS, NotHeldNow)
        /\ FracIs(audit_result.labels_score, 100 * Cardinality(HeldNow), Len(STANDARD_LABELS))
        /\ OverallIsWeighted
        /\ IssuesOfKind("Missing standard label")
             = [i \in 1..Len(audit_result.missing) |->
                  [kind |-> "Missing standard label", name |-> audit_result.missing[i]]]
        /\ (apc = "returned" /\ create_issues) => LabelsCallIsCurrent

\* Two labels were missing; one was created, the other call was answered
\* 422; the issue created for the labels lists the one still missing.
C20_Witness ==
    /\ apc = "returned"
    /\ fix_labels
    /\ create_issues
    /\ label_codes = <<201, 422>>
    /\ created_count = 2
    /\ Len(audit_result.missing) = 1
    /\ Len(issue_calls[Len(issue_calls)].list) = 1

----------------------------------------------------------------------------
\* Claims about the request estimate.

\* The least k with k * d >= n.
CeilDiv(n, d) == CHOOSE k \in 0..n : k * d >= n /\ (k - 1) * d < n

EstimatedRepos(c) == IF c = 100 THEN 3 * c ELSE c

\* What one owner adds to the estimate: the one call counted per owner,
\* the listing pages and one call per estimated repository; 1 + 5 + 200
\* when the first page could not be counted.
Contribution(c) ==
    IF c >= 0
    THEN 1 + CeilDiv(EstimatedRepos(c), 100) + EstimatedRepos(c)
    ELSE 1 + 5 + 200

RECURSIVE TotalOf(_)
TotalOf(pages) ==
    IF pages = <<>> THEN 0 ELSE Contribution(Head(pages)) + TotalOf(Tail(pages))

RECURSIVE ListingCalls(_)
ListingCalls(pages) ==
    IF pages = <<>> THEN 0
    ELSE CeilDiv(EstimatedRepos(Head(pages)), 100) + ListingCalls(Tail(pages))

RECURSIVE RepositoryCalls(_)
RepositoryCalls(pages) ==
    IF pages = <<>> THEN 0
    ELSE EstimatedRepos(Head(pages)) + RepositoryCalls(Tail(pages))

Estimated == rate_limits.known /\ first_pages # <<>>

----------------------------------------------------------------------------
\* Claims about the sequential loops.

Skipped(i) == lscript = "audit" /\ litems[i].archived

Raising == {i \in 1..Len(litems) : ~Skipped(i) /\ litems[i].outcome # "ok"}

Returning == {i \in 1..Len(litems) : ~Skipped(i) /\ litems[i].outcome = "ok"}

\* C22: in the loop over the repositories of audit_organization and in the
\* loop over the pull requests of the merge script, an exception raised
\* for an item is caught by the loop; the item is marked by an error line
\* and, for an exception other than KeyError in the merge script, counted
\* in errors; and every other item is processed, before or after it.
C22_LoopSurvivesFailures ==
    lpc = "done" =>
        /\ Len(handled) = Len(litems)
        /\ \A i \in Raising : handled[i] = "caught"
        /\ Range(diagnostics) = Raising
        /\ \A i \in Returning : handled[i] = "processed"
        /\ lscript = "merge" =>
              main_errors = Cardinality({i \in Raising : litems[i].outcome = "raises"})
        /\ lscript = "audit" => (Range(repositories) = Returning /\ main_errors = 0)

\* The merge script: the first two pull requests raised, the third was
\* processed.
C22_Witness ==
    /\ lpc = "done"
    /\ lscript = "merge"
    /\ Len(litems) = 3
    /\ litems[1].outcome = "raises"
    /\ litems[2].outcome = "KeyError"
    /\ handled = <<"caught", "caught", "processed">>
    /\ main_errors = 1

\* C23: archived repositories are skipped and counted in
\* repo_types.archived only, unless the audit runs with --include-archived;
\* then they are audited and appear in the repositories list.
C23_IncludeArchivedAudits ==
    (lpc = "done" /\ lscript = "audit") =>
        IF include_archived
        THEN /\ \A i \in 1..Len(litems) :
                  (litems[i].archived /\ litems[i].outcome = "ok") => i \in Range(repositories)
        ELSE /\ \A i \in 1..Len(litems) : litems[i].archived => i \notin Range(repositories)
             /\ archived_count = Cardinality({i \in 1..Len(litems) : litems[i].archived})

----------------------------------------------------------------------------
\* Claims about the toggles of the report script.

SitesLookedUp == {x.site : x \in lookups}

\* C24: with --no-ci-check no workflow or workflow-run lookup is made for
\* any repository, whether or not issues are checked; with --no-issues no
\* issue lookup is made.
C24_TogglesSuppressLookups ==
    /\ no_ci_check => SitesLookedUp \cap {"workflows", "runs"} = {}
    /\ no_issues => SitesLookedUp \cap {"issues", "issues_detail"} = {}

----------------------------------------------------------------------------
\* Claims about check_file_exists.

\* The first k candidates, in list order.
FirstPaths(k) == [i \in 1..k |-> file_paths[i]]

\* C25: the candidates are requested in list order; (True, p) is returned
\* for the first candidate p that exists and nothing is requested after
\* p; (False, None) is returned only when every candidate was requested
\* and none exists.
C25_FirstMatchWins ==
    ppc # "idle" =>
        /\ probed = FirstPaths(Len(probed))
        /\ (ppc = "returned" /\ pret.exists) =>
              /\ pret.path = probed[Len(probed)]
              /\ pret.path \in repo_paths
              /\ \A i \in 1..(Len(probed) - 1) : probed[i] \notin repo_paths
        /\ (ppc = "returned" /\ ~pret.exists) =>
              /\ pret.path = None
              /\ probed = file_paths
              /\ repo_paths = {}

\* README.rst and README exist: README.md and README.rst were requested,
\* README.txt and README were not.
C25_Witness ==
    /\ ppc = "returned"
    /\ repo_paths = {"README.rst", "README"}
    /\ probed = <<"README.md", "README.rst">>
    /\ pret = [exists |-> TRUE, path |-> "README.rst"]

----------------------------------------------------------------------------
\* The gate has run and the quota is not known.
QuotaUnknown == fpc \notin {"idle", "validate"} /\ ~rate_limits.known

\* C26: when the quota query fails or its answer cannot be parsed, the gate
\* returns True: no estimate is made, the operator is not asked, and the
\* loop over the owners runs.
C26_GateFailsOpen ==
    QuotaUnknown =>
        /\ fpc \in {"loop", "report", "done"}
        /\ first_pages = <<>>
        /\ estimates.search_requests = 0
        /\ estimates.repo_list_requests + estimates.pr_list_requests = 0
        /\ ~prompted
        /\ response = None

\* The quota was not known and the run fetched the open pull request.
C26_Witness ==
    /\ QuotaUnknown
    /\ fpc = "done"
    /\ all_prs # <<>>

----------------------------------------------------------------------------
OutcomeKeys ==
    {"merged_prs", "auto_merged_prs", "failed_checks", "pending_checks",
     "not_mergeable", "errors"}

RECURSIVE SumOfStats(_)
SumOfStats(keys) ==
    IF keys = {} THEN 0
    ELSE LET k == CHOOSE x \in keys : TRUE IN stats[k] + SumOfStats(keys \ {k})

\* C27: every pull request counted in total_prs is counted in exactly one
\* of merged_prs, auto_merged_prs, failed_checks, pending_checks,
\* not_mergeable and errors, so total_prs is their sum.
C27_TotalIsSumOfOutcomes ==
    mpc = "returned" =>
        /\ stats["total_prs"] = SumOfStats(OutcomeKeys)
        /\ Cardinality({k \in OutcomeKeys : stats[k] > 0}) = stats["total_prs"]

----------------------------------------------------------------------------
\* The records of the input list that carry no ci_info / issues_info entry.
WithoutInfo == {i \in Tasks : repo_info[i] = Unset}

\* C28: once check_repos_ci_and_issues_parallel has returned, every record
\* of the input list carries a ci_info and an issues_info entry, also when
\* a nameWithOwner occurs more than once in the list.
C28_EveryRecordCarriesInfo ==
    (dmode = "report" /\ dpc = "returned") => WithoutInfo = {}

----------------------------------------------------------------------------
\* Claims about the label lists of the audit record.

\* How often a value occurs in a sequence.
Occurrences(seq, x) == Cardinality({i \in 1..Len(seq) : seq[i] = x})

\* C29: in the record audit_repository returns, labels.existing and
\* labels.missing are disjoint, together they hold each of the 18 standard
\* labels exactly once, and the "Missing standard label" entries of
\* compliance.issues are the names in labels.missing, each once.
C29_LabelListsPartitionStandard ==
    apc = "returned" =>
        /\ Cardinality(Range(STANDARD_LABELS)) = 18
        /\ Range(audit_result.existing) \cap Range(audit_result.missing) = {}
        /\ \A l \in Range(audit_result.existing) \cup Range(audit_result.missing) :
              l \in Range(STANDARD_LABELS)
        /\ \A l \in Range(STANDARD_LABELS) :
              /\ Occurrences(audit_result.existing, l)
                    + Occurrences(audit_result.missing, l) = 1
              /\ Occurrences(audit_result.issues, [kind |-> "Missing standard label", name |-> l])
                    = Occurrences(audit_result.missing, l)
        /\ \A i \in 1..Len(audit_result.issues) :
              audit_result.issues[i].kind = "Missing standard label" =>
                  audit_result.issues[i].name \in Range(audit_result.missing)

\* Remediation of two missing labels, one created and one refused, on a
\* repository that spells a standard label with a capital.
C29_Witness ==
    /\ apc = "returned"
    /\ fix_labels
    /\ "Bug" \in repo_labels
    /\ label_codes = <<201, 403>>
    /\ Len(audit_result.existing) = 17
    /\ Len(audit_result.missing) = 1
    /\ Len(IssuesOfKind("Missing standard label")) = 1

----------------------------------------------------------------------------
\* Claims about the pagination loops.

\* The request of the page failed.
PageFailed(a) == a.status # "ok"

\* The items a page holds for its loop: the lines of the answer, less the
\* lines fetch_all_prs_for_owner cannot parse.
ItemsHeld(a) == page_count(lister, a)

\* A page that is empty, fails, or holds fewer than 100 items.
EndingPage(a) == PageFailed(a) \/ ItemsHeld(a) = 0 \/ ItemsHeld(a) < PerPage

LoopOver == gpc \in {"broke", "returned", "raised"}

\* The pages appended before the last request.
EarlierPages ==
    [i \in 1..(Len(page_answers) - 1) |->
        [page |-> i, n |-> page_items(lister, page_answers[i])]]

\* C30: the pagination loops request pages 1, 2, 3, ... consecutively and
\* stop at the first page that is empty, fails, or holds fewer than 100
\* items; a page that fails ends the loop with the items of the earlier
\* pages returned as the listing.
C30_LoopsStopAtFirstEndingPage ==
    /\ pages_requested = [i \in 1..Len(pages_requested) |-> i]
    /\ \A i \in 1..(Len(page_answers) - 1) : ~EndingPage(page_answers[i])
    /\ (gpc = "listing" /\ page_answers # <<>>) =>
          ~EndingPage(page_answers[Len(page_answers)])
    /\ LoopOver =>
          /\ EndingPage(page_answers[Len(page_answers)])
          /\ PageFailed(page_answers[Len(page_answers)]) =>
                /\ gpc \in {"broke", "returned"}
                /\ listed = EarlierPages
                /\ gpc = "returned" => lret = EarlierPages

============================================================================
